---- MODULE Spec2Model ----
(***************************************************************************)
(* Label synchronisation of the dropbox_labels plugin of electrum-dash.    *)
(*                                                                         *)
(* The model follows plugins/dropbox_labels: the SLIP-0015 key engine      *)
(* (slip15.py), the .mtdt envelope (encryption.py) and the plugin's        *)
(* push / pull / sync_label operations (dropbox_labels.py), run by the     *)
(* wallet's network asyncio loop and by the dialog's LabelsThread (qt.py). *)
(*                                                                         *)
(* Byte strings are symbolic: a hash or HMAC is the tuple of its name and  *)
(* its inputs, so two digests are equal exactly when their inputs are.     *)
(* An AES-GCM envelope records the key it was sealed with; its tag         *)
(* verifies under that key only.                                           *)
(***************************************************************************)
EXTENDS Integers, Sequences, FiniteSets, TLC

VARIABLES
    keystore,        \* "trezor" or "software": wallet.keystore of the wallet
    dropbox_tokens,  \* plugin.dropbox_tokens: wallet_id -> token ("" = no entry)
    labels,          \* the wallet's own label store (wallet.get_label / _set_label)
    store,           \* the remote object store: path -> object
    proc,            \* the running operation of each thread
    labels_at,       \* time of the latest change of the wallet's label store
    server_modified, \* metadata.server_modified of each path's object
    derived_at,      \* time of the latest successful derive_master_key, -1 = none
    now,             \* time.time()
    ops,             \* operations started so far
    oauth,           \* the DropboxOAuth2 client and the provider's token endpoint
    call,            \* a call of a function of the codec: inputs and result
    wallets,         \* plugin.wallets: the wallets start_wallet has registered
    db,              \* wallet.db['dropbox_oauth_token'] (<<>> = None)
    logged_out       \* how the latest logout_dropbox since the last login ended:
                     \* "" (none), "cleared" or "skipped" (it had no wallet id)

vars == <<keystore, dropbox_tokens, labels, store, proc, labels_at,
          server_modified, derived_at, now, ops, oauth, call, wallets, db,
          logged_out>>

\* What the plugin's sync operations leave alone
others == <<oauth, call, wallets, db, logged_out>>

----------------------------------------------------------------------------
(* Bounds of the model *)

MaxOps == 2
MaxTime == 400
TickStep == 400

(* Program constants *)

VERSION == 1
DefaultTimeout == 300

Wallet == "w1"
DeviceId == "dev1"
Threads == {"loop", "thread"}
Items == {"a", "b"}
Vals == {"x", "y"}
Tokens == {"tok"}
LabelInputs == {"x", ""}
NoToken == ""

\* A label dict: every item maps to its label, or to Missing when it is no key
Missing == "<missing>"
LabelSets == [Items -> Vals \cup {"", Missing}]
EmptyLabels == [i \in Items |-> Missing]

\* wallet.get_label: "" for an item without label
get_label(labs, k) == IF labs[k] = Missing THEN "" ELSE labs[k]

----------------------------------------------------------------------------
(* Symbolic digests *)

Sha256(m) == <<"sha256">> \o m
HmacSha256(k, m) == <<"hmac-sha256">> \o k \o m

\* start_wallet: password, wallet_id from the wallet fingerprint
Password(w) == <<"sha1hex32", w>>
WalletId(w) == <<"sha256hex", w>>

\* get_encryption_key, software branch: sha256(password)
SoftwareKey(w) == Sha256(Password(w))

\* get_label_filename, software branch (account_index = 0 gives no suffix)
SoftwareFilename(w, account_index) ==
    IF account_index > 0
    THEN WalletId(w) \o <<"_account_", ToString(account_index), ".mtdt">>
    ELSE WalletId(w) \o <<".mtdt">>

\* SLIP15.derive_master_key: what the device answers to the fixed request
MasterKey(dev) == <<"ckv", "m/10015'/0'", "Enable labeling?", dev>>

\* Faulty variant: the account index is left out of the HMAC message
derive_key_NoIndex(master_key, purpose, account_index, key_type) ==
    HmacSha256(master_key, <<purpose, "/", key_type>>)

\* SLIP15._derive_key
derive_key(master_key, purpose, account_index, key_type) ==
    HmacSha256(master_key, <<purpose, "/", ToString(account_index), "/", key_type>>)

\* SLIP15.derive_account_key
derive_account_key(master_key, purpose, account_index) ==
    [encryption_key |-> derive_key(master_key, purpose, account_index, "Encryption"),
     filename_key   |-> derive_key(master_key, purpose, account_index, "Filename")]

\* SLIP15.get_filename
get_filename(filename_key, account_index) ==
    <<"hex">> \o HmacSha256(filename_key, <<"account/", ToString(account_index)>>)
              \o <<".mtdt">>

\* get_account_index: always account 0
get_account_index(w) == 0

\* get_dropbox_folder
get_dropbox_folder(w) == <<"/Apps/Electrum-Dash/">>

HardwareKeys(dev, account_index) ==
    derive_account_key(MasterKey(dev), "Labels", account_index)
HardwareKey(dev) == HardwareKeys(dev, 0).encryption_key
HardwareFilename(dev) == get_filename(HardwareKeys(dev, 0).filename_key, 0)

SoftwarePath(w) == get_dropbox_folder(w) \o SoftwareFilename(w, 0)
HardwarePath(dev) == get_dropbox_folder(Wallet) \o HardwareFilename(dev)
Paths == {SoftwarePath(Wallet), HardwarePath(DeviceId)}
NoPath == <<>>
NoKey == <<>>
ForeignKey == Sha256(Password("other"))
OwnKeys == {SoftwareKey(Wallet), HardwareKey(DeviceId)}

----------------------------------------------------------------------------
(* The .mtdt envelope: TrezorSuiteFormat over AESGCMEncryption *)

\* What files_download can return for a path.  kind "none": no object there;
\* kind "short": fewer than NONCE_SIZE + TAG_SIZE bytes; kind "env": an envelope
\* sealed under key, whose plaintext is JSON or not, with a version field.
NoObject == [kind |-> "none", key |-> NoKey, json |-> FALSE, version |-> 0,
             labels |-> EmptyLabels]
ShortObject == [NoObject EXCEPT !.kind = "short"]

\* TrezorSuiteFormat.pack_labels
pack_labels(labs, encryption_key) ==
    [kind |-> "env", key |-> encryption_key, json |-> TRUE, version |-> VERSION,
     labels |-> labs]

\* TrezorSuiteFormat.unpack_labels: the first check that fails raises
unpack_labels(data, encryption_key) ==
    IF data.kind = "short"
    THEN [ok |-> FALSE, err |-> "ValueError: too short", labels |-> EmptyLabels]
    ELSE IF data.key # encryption_key
    THEN [ok |-> FALSE, err |-> "InvalidTag", labels |-> EmptyLabels]
    ELSE IF ~data.json
    THEN [ok |-> FALSE, err |-> "JSONDecodeError", labels |-> EmptyLabels]
    ELSE IF data.version # VERSION
    THEN [ok |-> FALSE, err |-> "ValueError: version", labels |-> EmptyLabels]
    ELSE [ok |-> TRUE, err |-> "", labels |-> data.labels]

SomeLabels == [a |-> "y", b |-> "y"]

\* The key whose filename leads to a path
KeyOfPath(path) ==
    IF path = SoftwarePath(Wallet) THEN SoftwareKey(Wallet) ELSE HardwareKey(DeviceId)

\* Objects another application (or a fault) can leave at a path: a truncated
\* one, one sealed under another wallet's key, and under this wallet's key
\* one that is no JSON, one of a later version, and a valid one
ForeignObjects(path) ==
    {ShortObject,
     pack_labels(SomeLabels, ForeignKey),
     [pack_labels(SomeLabels, KeyOfPath(path)) EXCEPT !.json = FALSE],
     [pack_labels(SomeLabels, KeyOfPath(path)) EXCEPT !.version = VERSION + 1],
     pack_labels(SomeLabels, KeyOfPath(path))}

----------------------------------------------------------------------------
(* SLIP15 key cache *)

CacheIds == {<<"master_key_", DeviceId>>}
NoEntry == [key |-> NoKey, expires |-> -1]

\* SLIP15.__init__: self._key_cache = {}
NewKeyCache == [id \in CacheIds |-> NoEntry]

\* SLIP15.cache_key
cache_key(cache, key_id, key, timeout, t) ==
    [cache EXCEPT ![key_id] = [key |-> key, expires |-> t + timeout]]

\* Faulty variant: an entry is still served at its expiry time
get_cached_key_AtExpiry(cache, key_id, t) ==
    IF cache[key_id] # NoEntry /\ cache[key_id].expires >= t
    THEN [key |-> cache[key_id].key, cache |-> cache]
    ELSE IF cache[key_id] # NoEntry
    THEN [key |-> NoKey, cache |-> [cache EXCEPT ![key_id] = NoEntry]]
    ELSE [key |-> NoKey, cache |-> cache]

\* SLIP15.get_cached_key: the key (NoKey for None) and the cache afterwards
get_cached_key(cache, key_id, t) ==
    IF cache[key_id] # NoEntry /\ cache[key_id].expires > t
    THEN [key |-> cache[key_id].key, cache |-> cache]
    ELSE IF cache[key_id] # NoEntry
    THEN [key |-> NoKey, cache |-> [cache EXCEPT ![key_id] = NoEntry]]
    ELSE [key |-> NoKey, cache |-> cache]

\* SLIP15.clear_cache
clear_cache(cache) == [id \in DOMAIN cache |-> NoEntry]

\* What the device can do with one encrypt_keyvalue request
DeviceOutcomes == {"ok", "badlen", "error"}

\* Faulty variant: the length of the device's answer is not looked at
derive_master_key_AnyLength(dev, outcome) ==
    IF outcome = "error"
    THEN [ok |-> FALSE, err |-> "DeviceError", key |-> NoKey]
    ELSE IF outcome = "badlen"
    THEN [ok |-> TRUE, err |-> "", key |-> <<"ckv-16-bytes", dev>>]
    ELSE [ok |-> TRUE, err |-> "", key |-> <<"ckv", "m/10015'/0'", "Enable labeling?", dev>>]

\* SLIP15.derive_master_key: the master key, or the exception it re-raises
derive_master_key(dev, outcome) ==
    IF outcome = "error"
    THEN [ok |-> FALSE, err |-> "DeviceError", key |-> NoKey]
    ELSE IF outcome = "badlen"
    THEN [ok |-> FALSE, err |-> "ValueError: master key length", key |-> NoKey]
    ELSE [ok |-> TRUE, err |-> "", key |-> MasterKey(dev)]

\* TrezorLabelEncryption.get_label_keys after the master key is known
get_label_keys(master_key, account_index) ==
    LET k == derive_account_key(master_key, "Labels", account_index)
    IN [encryption_key |-> k.encryption_key,
        filename |-> get_filename(k.filename_key, account_index)]

----------------------------------------------------------------------------
(* Operations of the plugin.  Each thread runs one operation at a time and   *)
(* gives up control where the code waits for the device or the network.     *)

USE_HARDWARE_ENCRYPTION == TRUE
NetOutcomes == {"ok", "fail"}

IdleProc ==
    [op |-> "none", pc |-> "idle", sub |-> "", force |-> FALSE,
     item |-> "", label |-> "",
     dpath |-> NoPath, upath |-> NoPath, key |-> NoKey, data |-> NoObject,
     labs |-> EmptyLabels, ret |-> EmptyLabels,
     res |-> "", err |-> "", answer |-> "", dlbad |-> FALSE, upfail |-> FALSE,
     deverr |-> FALSE, tagown |-> FALSE]

Running(t) == proc[t].pc \notin {"idle", "done"}

\* is_hardware_wallet: the keystore has a plugin with get_client
is_hardware_wallet(w) == keystore = "trezor"

\* get_wallet_id gives None for a wallet that is not in plugin.wallets
\* is_authenticated
is_authenticated(w) == w \in wallets /\ dropbox_tokens[WalletId(w)] # NoToken

\* Faulty variant: the token is stored as it is
encode_Plain(w, msg) == <<msg>>

\* encode / decode: AES-CBC under the wallet's password, then base64
NoStored == <<>>
encode(w, msg) == <<"b64", "aes-cbc", Password(w), msg>>
decode(w, message) ==
    IF Len(message) = 4 /\ message[3] = Password(w)
    THEN [ok |-> TRUE, msg |-> message[4]]
    ELSE [ok |-> FALSE, msg |-> NoToken]

\* wallet.db as start_wallet left it for a wallet with this token
StoredToken(w, token) == IF token = NoToken THEN NoStored ELSE encode(w, token)

\* sync_label lines 171-175: upsert a non-empty label, pop an empty one
Upsert(labs, item, label) ==
    IF label # ""
    THEN [labs EXCEPT ![item] = label]
    ELSE [labs EXCEPT ![item] = Missing]

\* Faulty variant: every remote value is written, whatever force is
UpdateWalletLabels_Overwrite(local, remote, force) ==
    [k \in Items |-> IF remote[k] # Missing THEN remote[k] ELSE local[k]]

\* pull_labels lines 260-262: which local labels take the remote value
UpdateWalletLabels(local, remote, force) ==
    [k \in Items |->
        IF remote[k] # Missing /\ (force \/ get_label(local, k) = "")
        THEN remote[k]
        ELSE local[k]]

\* How an operation ends: pull_labels and push_labels raise to their caller;
\* sync_label (@ignore_exceptions, except Exception) logs and returns None.
Ended(pr, e) ==
    [IdleProc EXCEPT
        !.op = pr.op, !.pc = "done", !.ret = pr.ret, !.answer = pr.answer,
        !.dlbad = pr.dlbad, !.upfail = pr.upfail,
        !.deverr = pr.deverr, !.tagown = pr.tagown,
        !.res = IF e # "" /\ pr.op # "sync" THEN "raised" ELSE "returned",
        !.err = e]

\* pull_labels has its label set (the remote one, or {} on not-found):
\* it returns it; sync_label goes on to change the one label and to upload.
PullReturns(pr, remote) ==
    IF pr.op = "sync"
    THEN [pr EXCEPT !.labs = Upsert(remote, pr.item, pr.label),
                    !.pc = "u_key", !.sub = "", !.data = NoObject]
    ELSE Ended([pr EXCEPT !.ret = remote], "")

\* pull_labels lines 255-265 once the key is known: unpack, then update the
\* wallet; an exception of unpack_labels leaves the loop unreached.
LabelsAfterPull(local, r, force) ==
    IF r.ok THEN UpdateWalletLabels(local, r.labels, force) ELSE local

\* The operation after a key request at its current step returned value v
\* (a filename at "p_fn" and "u_fn", an encryption key at "p_key" and "u_key")
AfterKey(pr, v) ==
    CASE pr.pc = "p_fn" ->
           [pr EXCEPT !.dpath = get_dropbox_folder(Wallet) \o v,
                      !.pc = "p_dl", !.sub = ""]
      [] pr.pc = "p_key" ->
           LET r == unpack_labels(pr.data, v)
           IN IF r.ok THEN PullReturns(pr, r.labels)
              ELSE Ended([pr EXCEPT !.dlbad = TRUE,
                                    !.tagown =
                                        /\ r.err = "InvalidTag"
                                        /\ pr.data.key \in OwnKeys
                                        /\ unpack_labels(pr.data, pr.data.key).ok],
                         r.err)
      [] pr.pc = "u_key" ->
           [pr EXCEPT !.key = v, !.pc = "u_fn", !.sub = ""]
      [] pr.pc = "u_fn" ->
           [pr EXCEPT !.upath = get_dropbox_folder(Wallet) \o v,
                      !.pc = "u_up", !.sub = ""]

\* Faulty variant: the wallet is updated from the payload before it is validated
WalletAfterKey_Unvalidated(pr, v, local) ==
    IF pr.pc = "p_key"
    THEN UpdateWalletLabels(local, pr.data.labels, pr.force)
    ELSE local

\* The wallet's labels after that step: only the unpack step of a pull writes
WalletAfterKey(pr, v, local) ==
    IF pr.pc = "p_key"
    THEN LabelsAfterPull(local, unpack_labels(pr.data, v), pr.force)
    ELSE local

\* The time of the latest change of the wallet's labels after a step
StampAfter(local, after, stamp, t) == IF after # local THEN t ELSE stamp

WantsFilename(pr) == pr.pc \in {"p_fn", "u_fn"}
KeySteps == {"p_fn", "p_key", "u_key", "u_fn"}

\* get_encryption_key / get_label_filename, software branch and fallback
SoftwareValue(pr) ==
    IF WantsFilename(pr) THEN SoftwareFilename(Wallet, 0) ELSE SoftwareKey(Wallet)

\* The same for a wallet that is not in plugin.wallets: the key is a KeyError,
\* the filename None and the path built from it a TypeError
NotRegistered(pr) == IF WantsFilename(pr) THEN "TypeError" ELSE "KeyError"

\* get_encryption_key / get_label_filename, what _get_hardware_keys gives
HardwareValue(pr, master_key) ==
    IF WantsFilename(pr)
    THEN get_label_keys(master_key, get_account_index(Wallet)).filename
    ELSE get_label_keys(master_key, get_account_index(Wallet)).encryption_key

----------------------------------------------------------------------------
(* DropboxOAuth2 (auth.py): the PKCE flow of one client *)

MaxFlows == 2
MaxExchanges == 2
ExpiryMargin == 300
ExpiresIn == 500

\* None, for a string-valued field
NoState == <<>>

\* The random values of the n-th get_authorization_url: all distinct
OAuthState(n) == <<"state", ToString(n)>>
CodeVerifier(n) == <<"verifier", ToString(n)>>

\* generate_pkce_params: the challenge is the encoded SHA-256 of the verifier
CodeChallenge(verifier) == <<"b64url">> \o Sha256(verifier)

\* The code the provider hands to the user who approved the n-th URL
AuthCode(n) == <<"code", ToString(n)>>
BadCode == <<"bad-code">>
WrongState == <<"wrong-state">>

NoTokenData == [access_token |-> NoState, has_expires_at |-> FALSE, expires_at |-> 0]

\* DropboxOAuth2.__init__; flows, exchanges and posts count the calls of
\* get_authorization_url and exchange_code_for_token and the requests sent to
\* TOKEN_URL; redeemed holds the flows whose code the provider has taken;
\* failed: an exchange of the current flow ended in a CSRF or rejection error
NewOAuth ==
    [state |-> NoState, code_verifier |-> NoState, code_challenge |-> NoState,
     flows |-> 0, exchanges |-> 0, posts |-> 0, redeemed |-> {},
     res |-> "", token_data |-> NoTokenData, failed |-> FALSE]

\* DropboxOAuth2.get_authorization_url
get_authorization_url(o) ==
    [o EXCEPT !.code_verifier = CodeVerifier(o.flows + 1),
              !.code_challenge = CodeChallenge(CodeVerifier(o.flows + 1)),
              !.state = OAuthState(o.flows + 1),
              !.flows = o.flows + 1,
              !.failed = FALSE]

\* The flows whose code the token endpoint accepts with this verifier: the
\* code was issued for a challenge the verifier hashes to, and is unused
RedeemableFlows(o, code, verifier) ==
    {n \in 1..o.flows :
        /\ code = AuthCode(n)
        /\ n \notin o.redeemed
        /\ CodeChallenge(verifier) = CodeChallenge(CodeVerifier(n))}

\* Faulty variant: the state parameter is not compared
exchange_code_for_token_Unchecked(o, code, state, net, with_expiry, t) ==
    IF net = "fail"
    THEN [o EXCEPT !.exchanges = @ + 1, !.posts = @ + 1, !.res = "ClientError"]
    ELSE IF RedeemableFlows(o, code, o.code_verifier) = {}
    THEN [o EXCEPT !.exchanges = @ + 1, !.posts = @ + 1,
                   !.res = "Token exchange failed", !.failed = TRUE]
    ELSE [o EXCEPT !.exchanges = @ + 1, !.posts = @ + 1, !.res = "token",
                   !.redeemed = @ \cup RedeemableFlows(o, code, o.code_verifier),
                   !.token_data = [access_token |-> <<"token">> \o code,
                                   has_expires_at |-> with_expiry,
                                   expires_at |-> IF with_expiry
                                                  THEN t + ExpiresIn ELSE 0]]

\* DropboxOAuth2.exchange_code_for_token at time t: the state test, then the
\* POST to TOKEN_URL, which fails (net), is answered with a status other
\* than 200, or with the token, to which expires_at is added when the answer
\* has expires_in
exchange_code_for_token(o, code, state, net, with_expiry, t) ==
    IF state # o.state
    THEN [o EXCEPT !.exchanges = @ + 1,
                   !.res = "Invalid state parameter", !.failed = TRUE]
    ELSE IF net = "fail"
    THEN [o EXCEPT !.exchanges = @ + 1, !.posts = @ + 1, !.res = "ClientError"]
    ELSE IF RedeemableFlows(o, code, o.code_verifier) = {}
    THEN [o EXCEPT !.exchanges = @ + 1, !.posts = @ + 1,
                   !.res = "Token exchange failed", !.failed = TRUE]
    ELSE [o EXCEPT !.exchanges = @ + 1, !.posts = @ + 1, !.res = "token",
                   !.redeemed = @ \cup RedeemableFlows(o, code, o.code_verifier),
                   !.token_data = [access_token |-> <<"token">> \o code,
                                   has_expires_at |-> with_expiry,
                                   expires_at |-> IF with_expiry
                                                  THEN t + ExpiresIn ELSE 0]]

\* Faulty variant: expired from the margin on, not only after it
is_token_expired_AtMargin(token_data, t) ==
    LET expires_at == IF token_data.has_expires_at THEN token_data.expires_at ELSE 0
    IN t >= expires_at - ExpiryMargin

\* DropboxOAuth2.is_token_expired at time t
is_token_expired(token_data, t) ==
    LET expires_at == IF token_data.has_expires_at THEN token_data.expires_at ELSE 0
    IN t > expires_at - ExpiryMargin

----------------------------------------------------------------------------
(* The codec byte by byte (encryption.py).  pack_labels and unpack_labels     *)
(* above are these functions seen on whole envelopes; here a text is a       *)
(* sequence of characters, a byte string a sequence of bytes.                *)

\* A dict entry that is not there, for a character sequence
AbsentText == <<Missing>>

\* The label texts of the codec's inputs: empty, ASCII, non-ASCII, and the
\* two characters json.dumps escapes
CodecTexts == {<<>>, <<"x">>, <<"e-acute", "euro">>, <<"\"", "\\">>}
CodecLabelSets == [Items -> CodecTexts \cup {AbsentText}]

\* Faulty variant: e-acute is written as its one Latin-1 byte
Utf8_Latin1(c) ==
    CASE c = "e-acute" -> <<"e9">>
      [] c = "euro"    -> <<"e2", "82", "ac">>
      [] OTHER         -> <<c>>

\* str.encode('utf-8') of one character
Utf8(c) ==
    CASE c = "e-acute" -> <<"c3", "a9">>
      [] c = "euro" -> <<"e2", "82", "ac">>
      [] OTHER   -> <<c>>

\* str.encode('utf-8'): the bytes of the characters in order (the text is
\* taken by halves)
RECURSIVE utf8_encode(_)
utf8_encode(text) ==
    IF text = <<>> THEN <<>>
    ELSE IF Len(text) = 1 THEN Utf8(text[1])
    ELSE LET half == Len(text) \div 2
         IN utf8_encode(SubSeq(text, 1, half))
               \o utf8_encode(SubSeq(text, half + 1, Len(text)))

\* bytes.decode('utf-8'): <<"UnicodeDecodeError">> for an invalid sequence
\* The decoding is strict: every lead byte is followed by its continuation
\* bytes and every continuation byte follows its lead byte; the text then has
\* one character for each byte that is not a continuation byte
utf8_decode(bytes) ==
    LET n == Len(bytes)
        Continuation(b) == b \in {"a9", "82", "ac"}
        Lead(b) == ~Continuation(b)
        at(i) == IF i >= 1 /\ i <= n THEN bytes[i] ELSE "<none>"
        wellformed ==
            \A i \in 1..n :
                /\ bytes[i] = "c3" => at(i + 1) = "a9"
                /\ bytes[i] = "e2" => at(i + 1) = "82" /\ at(i + 2) = "ac"
                /\ bytes[i] = "a9" => at(i - 1) = "c3"
                /\ bytes[i] = "82" => at(i - 1) = "e2"
                /\ bytes[i] = "ac" => at(i - 2) = "e2" /\ at(i - 1) = "82"
        leads == SelectSeq(bytes, Lead)
    IN IF ~wellformed THEN <<"UnicodeDecodeError">>
       ELSE [i \in 1..Len(leads) |->
               CASE leads[i] = "c3" -> "e-acute"
                 [] leads[i] = "e2" -> "euro"
                 [] OTHER -> leads[i]]

\* json.dumps of a string with ensure_ascii=False: quotes and backslashes are
\* escaped, every other character of the inputs is written as it is
RECURSIVE JsonEscape(_)
JsonEscape(text) ==
    IF text = <<>> THEN <<>>
    ELSE IF Len(text) = 1
    THEN (IF text[1] \in {"\"", "\\"} THEN <<"\\", text[1]>> ELSE <<text[1]>>)
    ELSE LET half == Len(text) \div 2
         IN JsonEscape(SubSeq(text, 1, half))
               \o JsonEscape(SubSeq(text, half + 1, Len(text)))

JsonString(text) == <<"\"">> \o JsonEscape(text) \o <<"\"">>

\* json.dumps of the labels dict with separators (',', ':'), keys in order
RECURSIVE JsonEntries(_, _)
JsonEntries(labs, keys) ==
    IF keys = <<>> THEN <<>>
    ELSE IF labs[Head(keys)] = AbsentText THEN JsonEntries(labs, Tail(keys))
    ELSE LET rest == JsonEntries(labs, Tail(keys))
         IN JsonString(<<Head(keys)>>) \o <<":">> \o JsonString(labs[Head(keys)])
            \o (IF rest = <<>> THEN <<>> ELSE <<",">> \o rest)

JsonLabels(labs) == <<"{">> \o JsonEntries(labs, <<"a", "b">>) \o <<"}">>

\* The values a version field can have in a document: absent, the numbers
\* 1, 2 and 1.0, the string "1" and true; and how json writes them
VersionValues == {"absent", "1", "2", "1.0", "'1'", "true"}
JsonVersion(v) ==
    CASE v = "1"    -> <<"1">>
      [] v = "2"    -> <<"2">>
      [] v = "1.0"  -> <<"1", ".", "0">>
      [] v = "'1'"  -> <<"\"", "1", "\"">>
      [] v = "true" -> <<"t", "r", "u", "e">>

\* Python's == between a parsed version value and the int VERSION:
\* 1.0 == 1 and True == 1 hold, None == 1 and "1" == 1 do not
PyEqualsVersion(v) == v \in {"1", "1.0", "true"}

\* The documents a .mtdt payload can hold
JsonDocs ==
    {d \in [version : VersionValues, has_labels : BOOLEAN, labels : CodecLabelSets] :
        ~d.has_labels => \A k \in Items : d.labels[k] = AbsentText}

\* json.dumps({'version': ..., 'labels': ...}, separators=(',', ':'),
\* ensure_ascii=False)
json_dumps(doc) ==
    LET v == IF doc.version = "absent" THEN <<>>
             ELSE JsonString(<<"v", "e", "r", "s", "i", "o", "n">>) \o <<":">>
                  \o JsonVersion(doc.version)
        l == IF ~doc.has_labels THEN <<>>
             ELSE JsonString(<<"l", "a", "b", "e", "l", "s">>) \o <<":">>
                  \o JsonLabels(doc.labels)
    IN <<"{">> \o v \o (IF v # <<>> /\ l # <<>> THEN <<",">> ELSE <<>>) \o l
       \o <<"}">>

\* json.loads: the document the text is the JSON of; ok = FALSE for a text
\* that is no JSON document (JSONDecodeError)
json_loads(text) ==
    LET docs == {d \in JsonDocs : json_dumps(d) = text}
    IN IF docs = {} THEN [ok |-> FALSE]
       ELSE [ok |-> TRUE, doc |-> CHOOSE d \in docs : TRUE]

\* AESGCMEncryption.KEY_SIZE, NONCE_SIZE, TAG_SIZE
KEY_SIZE == 32
NONCE_SIZE == 12
TAG_SIZE == 16

\* len(key): a SHA-256 or HMAC-SHA-256 digest has 32 bytes, any other key
\* is written out byte by byte
KeyLength(key) ==
    IF key # <<>> /\ Head(key) \in {"sha256", "hmac-sha256"} THEN KEY_SIZE
    ELSE Len(key)

\* A byte of an envelope: of the nonce, of the ciphertext (v: the plaintext
\* byte under it) or of the tag (a: the plaintext the tag was computed over);
\* k and n are the key and the nonce it was made with, x marks a flipped bit
EnvByte(r, k, n, i, v, a) ==
    [r |-> r, k |-> k, n |-> n, i |-> i, v |-> v, a |-> a, x |-> FALSE]

\* os.urandom(NONCE_SIZE): the n-th nonce drawn
NonceBytes(n) == [i \in 1..NONCE_SIZE |-> EnvByte("nonce", NoKey, n, i, "", <<>>)]

\* AES-GCM under key and nonce n: as many ciphertext bytes as plaintext bytes,
\* and the tag
GcmCipher(key, n, plaintext) ==
    [i \in 1..Len(plaintext) |-> EnvByte("ct", key, n, i, plaintext[i], <<>>)]
GcmTag(key, n, plaintext) ==
    [i \in 1..TAG_SIZE |-> EnvByte("tag", key, n, i, "", plaintext)]

\* Faulty variant: the tag is checked under the key it was made with
TagVerifies_AnyKey(key, ciphertext, nonce, tag) ==
    /\ Len(tag) = TAG_SIZE
    /\ tag = GcmTag(tag[1].k, tag[1].n, tag[1].a)
    /\ nonce = NonceBytes(tag[1].n)
    /\ ciphertext = GcmCipher(tag[1].k, tag[1].n, tag[1].a)

\* decryptor.finalize(): the tag verifies exactly when nonce, ciphertext and
\* tag are what an encryption under this key produced
TagVerifies(key, ciphertext, nonce, tag) ==
    /\ Len(tag) = TAG_SIZE
    /\ tag = GcmTag(key, tag[1].n, tag[1].a)
    /\ nonce = NonceBytes(tag[1].n)
    /\ ciphertext = GcmCipher(key, tag[1].n, tag[1].a)

\* Faulty variant: the key length is not tested
encrypt_AnyKey(key, plaintext, n) ==
    [ok |-> TRUE, err |-> "", ciphertext |-> GcmCipher(key, n, plaintext),
     nonce |-> NonceBytes(n), tag |-> GcmTag(key, n, plaintext)]

\* AESGCMEncryption.encrypt, with the nonce generate_nonce draws
encrypt(key, plaintext, n) ==
    IF KeyLength(key) # KEY_SIZE
    THEN [ok |-> FALSE, err |-> "ValueError: key", ciphertext |-> <<>>,
          nonce |-> <<>>, tag |-> <<>>]
    ELSE [ok |-> TRUE, err |-> "", ciphertext |-> GcmCipher(key, n, plaintext),
          nonce |-> NonceBytes(n), tag |-> GcmTag(key, n, plaintext)]

\* AESGCMEncryption.decrypt
decrypt(key, ciphertext, nonce, tag) ==
    IF KeyLength(key) # KEY_SIZE
    THEN [ok |-> FALSE, err |-> "ValueError: key", plaintext |-> <<>>]
    ELSE IF ~TagVerifies(key, ciphertext, nonce, tag)
    THEN [ok |-> FALSE, err |-> "InvalidTag", plaintext |-> <<>>]
    ELSE [ok |-> TRUE, err |-> "",
          plaintext |-> [i \in 1..Len(ciphertext) |-> ciphertext[i].v]]

NoCodecLabels == [k \in Items |-> AbsentText]

\* Faulty variant: the nonce is left out of the envelope
pack_labels_bytes_NoNonce(labs, encryption_key, n) ==
    LET labels_json == json_dumps([version |-> ToString(VERSION),
                                   has_labels |-> TRUE, labels |-> labs])
        e == encrypt(encryption_key, utf8_encode(labels_json), n)
    IN IF ~e.ok THEN [ok |-> FALSE, err |-> e.err, data |-> <<>>]
       ELSE [ok |-> TRUE, err |-> "", data |-> e.ciphertext \o e.tag]

\* TrezorSuiteFormat.pack_labels, byte by byte
pack_labels_bytes(labs, encryption_key, n) ==
    LET labels_json == json_dumps([version |-> ToString(VERSION),
                                   has_labels |-> TRUE, labels |-> labs])
        plaintext == utf8_encode(labels_json)
        e == encrypt(encryption_key, plaintext, n)
    IN IF ~e.ok THEN [ok |-> FALSE, err |-> e.err, data |-> <<>>]
       ELSE [ok |-> TRUE, err |-> "", data |-> e.nonce \o e.ciphertext \o e.tag]

\* TrezorSuiteFormat.unpack_labels, byte by byte
unpack_labels_bytes(data, encryption_key) ==
    IF Len(data) < NONCE_SIZE + TAG_SIZE
    THEN [ok |-> FALSE, err |-> "ValueError: too short", labels |-> NoCodecLabels]
    ELSE
    LET nonce == SubSeq(data, 1, NONCE_SIZE)
        tag == SubSeq(data, Len(data) - TAG_SIZE + 1, Len(data))
        ciphertext == SubSeq(data, NONCE_SIZE + 1, Len(data) - TAG_SIZE)
        d == decrypt(encryption_key, ciphertext, nonce, tag)
        text == utf8_decode(d.plaintext)
        j == json_loads(text)
    IN IF ~d.ok
       THEN [ok |-> FALSE, err |-> d.err, labels |-> NoCodecLabels]
       ELSE IF text = <<"UnicodeDecodeError">>
       THEN [ok |-> FALSE, err |-> "UnicodeDecodeError", labels |-> NoCodecLabels]
       ELSE IF ~j.ok
       THEN [ok |-> FALSE, err |-> "JSONDecodeError", labels |-> NoCodecLabels]
       ELSE IF ~PyEqualsVersion(j.doc.version)
       THEN [ok |-> FALSE, err |-> "ValueError: version", labels |-> NoCodecLabels]
       ELSE [ok |-> TRUE, err |-> "",
             labels |-> IF j.doc.has_labels THEN j.doc.labels ELSE NoCodecLabels]

----------------------------------------------------------------------------
(* Calls of the codec's functions *)

NoCall == [fn |-> "none"]

\* The keys a caller can hand to the codec: two 32-byte digests and a
\* 16-byte key
ShortKey == <<"00", "01", "02", "03", "04", "05", "06", "07",
              "08", "09", "0a", "0b", "0c", "0d", "0e", "0f">>
CodecKeys == {SoftwareKey(Wallet), ForeignKey, ShortKey}

\* Byte strings handed to encrypt directly
RawPlaintexts == {<<>>, <<"00">>, <<"c3", "a9", "7b">>}

\* What can happen to an envelope between its writer and its reader
Damages == {"none", "flip_ct", "flip_tag", "truncate"}

FlipBit(bytes, i) ==
    IF i \in 1..Len(bytes) THEN [bytes EXCEPT ![i].x = ~@] ELSE bytes

\* The envelope nonce || ciphertext || tag after the damage
Damaged(data, damage) ==
    CASE damage = "none"     -> data
      [] damage = "flip_ct"  -> FlipBit(data, NONCE_SIZE + 1)
      [] damage = "flip_tag" -> FlipBit(data, Len(data))
      [] damage = "truncate" -> SubSeq(data, 1, NONCE_SIZE + TAG_SIZE - 1)

\* The times and expiry fields of the tokens given to is_token_expired
TokenTimes == {0, 1000}
TokenLifetimes == {200, 299, 300, 301, 400}
TokenInputs ==
    {[access_token |-> <<"token">>, has_expires_at |-> TRUE, expires_at |-> e] :
        e \in {t + d : t \in TokenTimes, d \in TokenLifetimes}}
    \cup {[NoTokenData EXCEPT !.access_token = <<"token">>]}

NoResult == [ok |-> FALSE, err |-> "not called"]

\* The calls of the codec, before they are made
CodecCalls ==
    {[fn |-> "labels", stage |-> "in", labs |-> l, key |-> k, key2 |-> k2,
      damage |-> d, packed |-> NoResult, data |-> <<>>, out |-> NoResult] :
        l \in CodecLabelSets, k \in CodecKeys, k2 \in CodecKeys, d \in Damages}
    \cup
    {[fn |-> "document", stage |-> "in", doc |-> j, key |-> k, key2 |-> k,
      damage |-> "none", packed |-> NoResult, data |-> <<>>, out |-> NoResult] :
        j \in {d \in JsonDocs : \A i \in Items : d.labels[i] \in {<<"x">>, AbsentText}},
        k \in {SoftwareKey(Wallet)}}
    \cup
    {[fn |-> "bytes", stage |-> "in", p |-> p, key |-> k, key2 |-> k2,
      damage |-> d, packed |-> NoResult, data |-> <<>>, out |-> NoResult] :
        p \in RawPlaintexts, k \in CodecKeys, k2 \in CodecKeys,
        d \in Damages \ {"truncate"}}
    \cup
    {[fn |-> "is_token_expired", stage |-> "in", token_data |-> tok, t |-> t,
      out |-> NoResult] : tok \in TokenInputs, t \in TokenTimes}


----------------------------------------------------------------------------
(* import_trezor_suite_labels: the scan of the Trezor Suite folder *)

MaxEntries == 2

\* get_encryption_key as one step: the SLIP-0015 key of a hardware wallet
\* whose device answers, the sha256 of the password otherwise
get_encryption_key(hardware, outcome) ==
    IF hardware /\ USE_HARDWARE_ENCRYPTION
    THEN LET r == derive_master_key(DeviceId, outcome)
         IN IF r.ok
            THEN get_label_keys(r.key, get_account_index(Wallet)).encryption_key
            ELSE SoftwareKey(Wallet)
    ELSE SoftwareKey(Wallet)

\* Labels of an object the import must not take, and of those it can take
RejectedLabels == [a |-> "z", b |-> "z"]
SuiteLabelSets == {[a |-> "y", b |-> Missing], [a |-> Missing, b |-> "y"]}

\* What files_list_folder("/Apps/TREZOR/") can list: an entry has a name that
\* ends in .mtdt or not, and files_download of it answers or fails.  The
\* objects are label files of this wallet's device, one this plugin wrote
\* under the software key, and files the import cannot read: a truncated one,
\* one of another wallet, one that is no JSON and one of another version.
TrezorEntries ==
    {[mtdt |-> TRUE, net |-> "ok", obj |-> pack_labels(l, HardwareKey(DeviceId))] :
        l \in SuiteLabelSets}
    \cup
    {[mtdt |-> TRUE, net |-> "ok", obj |-> o] :
        o \in {pack_labels([a |-> "x", b |-> "x"], SoftwareKey(Wallet)),
               [ShortObject EXCEPT !.labels = RejectedLabels],
               pack_labels(RejectedLabels, ForeignKey),
               [pack_labels(RejectedLabels, HardwareKey(DeviceId))
                   EXCEPT !.json = FALSE],
               [pack_labels(RejectedLabels, HardwareKey(DeviceId))
                   EXCEPT !.version = VERSION + 1]}}
    \cup
    {[mtdt |-> FALSE, net |-> "ok",
      obj |-> pack_labels(RejectedLabels, HardwareKey(DeviceId))],
     [mtdt |-> TRUE, net |-> "fail",
      obj |-> pack_labels(RejectedLabels, HardwareKey(DeviceId))]}

TrezorFolders ==
    UNION {[1..n -> TrezorEntries] : n \in 0..MaxEntries}

\* dict.update: the keys of more replace those of labs
DictUpdate(labs, more) ==
    [k \in Items |-> IF more[k] # Missing THEN more[k] ELSE labs[k]]

\* Faulty variant: the labels of an entry are merged whether or not it opened
import_entry_Unvalidated(entry, encryption_key, imported_labels) ==
    DictUpdate(imported_labels, entry.obj.labels)

\* import_trezor_suite_labels lines 420-437: one entry of the listing; a
\* failed download and an exception of unpack_labels go to the next entry
import_entry(entry, encryption_key, imported_labels) ==
    IF ~entry.mtdt
    THEN imported_labels
    ELSE IF entry.net = "fail"
    THEN imported_labels
    ELSE LET r == unpack_labels(entry.obj, encryption_key)
         IN IF r.ok THEN DictUpdate(imported_labels, r.labels)
                    ELSE imported_labels

\* import_trezor_suite_labels lines 416-437: the loop over result.entries
RECURSIVE import_entries(_, _, _)
import_entries(entries, encryption_key, imported_labels) ==
    IF entries = <<>>
    THEN imported_labels
    ELSE import_entries(Tail(entries), encryption_key,
                        import_entry(Head(entries), encryption_key, imported_labels))

\* Faulty variant: the kind of wallet is tested first and the token not at all
import_trezor_suite_labels_NoGate(entries, authenticated, hardware, net, outcome, local) ==
    IF ~hardware
    THEN [res |-> "raised", err |-> "This feature requires a hardware wallet",
          key |-> NoKey, imported |-> EmptyLabels, labels |-> local, calls |-> 0]
    ELSE IF net = "fail"
    THEN [res |-> "raised", err |-> "ProviderError", key |-> NoKey,
          imported |-> EmptyLabels, labels |-> local, calls |-> 1]
    ELSE LET encryption_key == get_encryption_key(hardware, outcome)
             imported_labels == import_entries(entries, encryption_key, EmptyLabels)
         IN [res |-> "returned", err |-> "", key |-> encryption_key,
             imported |-> imported_labels,
             labels |-> DictUpdate(local, imported_labels),
             calls |-> 1 + Cardinality({i \in 1..Len(entries) : entries[i].mtdt})]

\* import_trezor_suite_labels: what it raises or returns, the key it used, the
\* wallet's labels afterwards and the number of files_list_folder and
\* files_download calls it made
import_trezor_suite_labels(entries, authenticated, hardware, net, outcome, local) ==
    IF ~authenticated
    THEN [res |-> "raised", err |-> "Dropbox not authenticated", key |-> NoKey,
          imported |-> EmptyLabels, labels |-> local, calls |-> 0]
    ELSE IF ~hardware
    THEN [res |-> "raised", err |-> "This feature requires a hardware wallet",
          key |-> NoKey, imported |-> EmptyLabels, labels |-> local, calls |-> 0]
    ELSE IF net = "fail"
    THEN [res |-> "raised", err |-> "ProviderError", key |-> NoKey,
          imported |-> EmptyLabels, labels |-> local, calls |-> 1]
    ELSE LET encryption_key == get_encryption_key(hardware, outcome)
             imported_labels == import_entries(entries, encryption_key, EmptyLabels)
         IN [res |-> "returned", err |-> "", key |-> encryption_key,
             imported |-> imported_labels,
             labels |-> DictUpdate(local, imported_labels),
             calls |-> 1 + Cardinality({i \in 1..Len(entries) : entries[i].mtdt})]

ImportCalls ==
    {[fn |-> "import", stage |-> "in", entries |-> f, before |-> EmptyLabels,
      out |-> NoResult] : f \in TrezorFolders}

----------------------------------------------------------------------------
(* Calls of the SLIP-0015 key engine on one TrezorLabelEncryption *)

MaxAccount == 2
CallTime == 200

\* The cache of the instance before the call: empty, or holding a master key
\* that expires later, at the time of the call, or earlier
CallCaches ==
    {NewKeyCache} \cup
    {cache_key(NewKeyCache, <<"master_key_", DeviceId>>, MasterKey(DeviceId),
               DefaultTimeout, t) : t \in {CallTime - 100, CallTime - DefaultTimeout,
                                           CallTime - DefaultTimeout - 100}}

KeyCalls ==
    {[fn |-> "get_label_keys", stage |-> "in", cache |-> c, use_cache |-> u,
      t |-> CallTime, before |-> c, outcome |-> "", out |-> NoResult] :
        c \in CallCaches, u \in BOOLEAN}
    \cup
    {[fn |-> "derive_account_key", stage |-> "in", master_key |-> mk,
      i |-> i, j |-> j, out |-> NoResult, again |-> NoResult, other |-> NoResult] :
        mk \in {MasterKey(DeviceId), MasterKey("dev2")},
        i \in 0..MaxAccount, j \in 0..MaxAccount}

----------------------------------------------------------------------------
(* PKCE parameters: base64 over bytes, as base64.urlsafe_b64encode computes it *)

StandardAlphabet ==
    <<
      "A", "B", "C", "D", "E", "F", "G", "H", "I", "J", "K", "L", "M", "N", "O", "P",
      "Q", "R", "S", "T", "U", "V", "W", "X", "Y", "Z", "a", "b", "c", "d", "e", "f",
      "g", "h", "i", "j", "k", "l", "m", "n", "o", "p", "q", "r", "s", "t", "u", "v",
      "w", "x", "y", "z", "0", "1", "2", "3", "4", "5", "6", "7", "8", "9", "+", "/" >>

\* The URL-safe alphabet: '-' and '_' in the places of '+' and '/'
UrlSafeAlphabet ==
    <<
      "A", "B", "C", "D", "E", "F", "G", "H", "I", "J", "K", "L", "M", "N", "O", "P",
      "Q", "R", "S", "T", "U", "V", "W", "X", "Y", "Z", "a", "b", "c", "d", "e", "f",
      "g", "h", "i", "j", "k", "l", "m", "n", "o", "p", "q", "r", "s", "t", "u", "v",
      "w", "x", "y", "z", "0", "1", "2", "3", "4", "5", "6", "7", "8", "9", "-", "_" >>

\* One group of up to three bytes as four characters, '=' for a missing byte
b64_group(group, alphabet) ==
    LET n == Len(group)
        b(i) == IF i <= n THEN group[i] ELSE 0
        v == b(1) * 65536 + b(2) * 256 + b(3)
        c1 == alphabet[(v \div 262144) + 1]
        c2 == alphabet[((v \div 4096) % 64) + 1]
        c3 == alphabet[((v \div 64) % 64) + 1]
        c4 == alphabet[(v % 64) + 1]
    IN IF n = 3 THEN <<c1, c2, c3, c4>>
       ELSE IF n = 2 THEN <<c1, c2, c3, "=">>
       ELSE <<c1, c2, "=", "=">>

\* The groups of three bytes in order, the last one of one to three bytes:
\* character j of the text is a character of group (j - 1) \div 4 + 1
b64encode(bytes, alphabet) ==
    LET n == Len(bytes)
        groups == (n + 2) \div 3
        group(k) == SubSeq(bytes, 3 * k - 2, IF 3 * k < n THEN 3 * k ELSE n)
    IN [j \in 1..(4 * groups) |->
          b64_group(group(((j - 1) \div 4) + 1), alphabet)[((j - 1) % 4) + 1]]

\* Faulty variant: the standard alphabet, with '+' and '/'
urlsafe_b64encode_Standard(bytes) == b64encode(bytes, StandardAlphabet)

\* base64.urlsafe_b64encode
urlsafe_b64encode(bytes) == b64encode(bytes, UrlSafeAlphabet)

\* str.rstrip('=')
rstrip_eq(chars) ==
    LET last == CHOOSE k \in 0..Len(chars) :
                    /\ k = 0 \/ chars[k] # "="
                    /\ \A i \in (k + 1)..Len(chars) : chars[i] = "="
    IN SubSeq(chars, 1, last)

TOKEN_BYTES == 32
DIGEST_SIZE == 32

\* generate_pkce_params, given what secrets.token_bytes returned and the
\* SHA-256 digest of the verifier's text
generate_pkce_params(random, digest) ==
    [code_verifier |-> rstrip_eq(urlsafe_b64encode(random)),
     code_challenge |-> rstrip_eq(urlsafe_b64encode(digest))]

\* Byte strings of a given length: one byte repeated, and the three bytes
\* whose groups are all '+' in the standard alphabet
ByteSamples(n) ==
    {[i \in 1..n |-> b] : b \in {0, 65, 255}}
    \cup {[i \in 1..n |-> <<251, 239, 190>>[((i - 1) % 3) + 1]],
          [i \in 1..n |-> (i * 37) % 256]}

PkceCalls ==
    {[fn |-> "generate_pkce_params", stage |-> "in", random |-> r, digest |-> d,
      out |-> NoResult] :
        r \in ByteSamples(TOKEN_BYTES), d \in ByteSamples(DIGEST_SIZE)}

----------------------------------------------------------------------------
(* Actions *)

\* The folder when the plugin starts: empty, or holding one object left there
\* by an earlier session or by another application
InitialStores ==
    {[q \in Paths |-> NoObject]}
    \cup UNION {{[q \in Paths |-> IF q = p THEN o ELSE NoObject] :
                     o \in ForeignObjects(p)} : p \in Paths}

Init ==
    /\ keystore \in {"trezor", "software"}
    /\ dropbox_tokens \in [{WalletId(Wallet)} -> Tokens \cup {NoToken}]
    /\ labels = [a |-> "x", b |-> Missing]
    /\ store \in InitialStores
    /\ proc = [t \in Threads |-> IdleProc]
    /\ labels_at = 0
    /\ server_modified = [p \in Paths |-> 0]
    /\ derived_at = -1
    /\ now = 0
    /\ ops = 0
    /\ oauth = NewOAuth
    /\ call = NoCall
    /\ wallets = {Wallet}
    /\ db = StoredToken(Wallet, dropbox_tokens[WalletId(Wallet)])
    /\ logged_out = ""

\* EncodingDialog.start_sync('pull'): refused while the dialog's thread runs;
\* LabelsThread.run then calls pull_labels (with force = FALSE; force = TRUE
\* is the other value of the method's parameter)
StartPull(force) ==
    /\ ~Running("thread")
    /\ ops < MaxOps
    /\ proc' = [proc EXCEPT !["thread"] =
                  [IdleProc EXCEPT !.op = "pull", !.pc = "auth", !.force = force]]
    /\ ops' = ops + 1
    /\ UNCHANGED <<keystore, dropbox_tokens, labels, store, labels_at,
                   server_modified, derived_at, now>>
    /\ UNCHANGED others

\* EncodingDialog.start_sync('push'); LabelsThread.run then calls push_labels
StartPush ==
    /\ ~Running("thread")
    /\ ops < MaxOps
    /\ proc' = [proc EXCEPT !["thread"] =
                  [IdleProc EXCEPT !.op = "push", !.pc = "auth"]]
    /\ ops' = ops + 1
    /\ UNCHANGED <<keystore, dropbox_tokens, labels, store, labels_at,
                   server_modified, derived_at, now>>
    /\ UNCHANGED others

\* The wallet sets or removes a label and runs the set_label hook, which
\* schedules sync_label on the network loop (one coroutine runs there at a
\* time); for a wallet that is not registered the hook returns at once
set_label(item, label) ==
    /\ ~Running("loop")
    /\ ops < MaxOps
    /\ labels' = Upsert(labels, item, label)
    /\ labels_at' = StampAfter(labels, labels', labels_at, now)
    /\ proc' = IF Wallet \in wallets
               THEN [proc EXCEPT !["loop"] =
                       [IdleProc EXCEPT !.op = "sync", !.pc = "auth",
                                        !.item = item, !.label = label]]
               ELSE proc
    /\ ops' = ops + 1
    /\ UNCHANGED <<keystore, dropbox_tokens, store, server_modified, derived_at,
                   now>>
    /\ UNCHANGED others

\* The is_authenticated test that opens sync_label, pull_labels and push_labels;
\* push_labels then collects the wallet's labels
AuthCheck(t) ==
    /\ proc[t].pc = "auth"
    /\ proc' = [proc EXCEPT ![t] =
         IF ~is_authenticated(Wallet)
         THEN IF proc[t].op = "sync"
              THEN Ended(proc[t], "")
              ELSE Ended(proc[t], "Dropbox not authenticated")
         ELSE IF proc[t].op = "push"
              THEN [proc[t] EXCEPT !.labs = labels, !.pc = "u_key"]
              ELSE [proc[t] EXCEPT !.pc = "p_fn"]]
    /\ UNCHANGED <<keystore, dropbox_tokens, labels, store, labels_at,
                   server_modified, derived_at, now, ops>>
    /\ UNCHANGED others

\* get_encryption_key / get_label_filename up to the device request:
\* a software wallet computes its value (for a wallet stop_wallet has removed
\* the key is a KeyError and the filename None, a TypeError in the path); for
\* a hardware wallet
\* _get_hardware_keys builds a new TrezorLabelEncryption, whose new SLIP15
\* cache is asked for the master key before the device is
KeyRequest(t) ==
    /\ proc[t].pc \in KeySteps
    /\ proc[t].sub = ""
    /\ IF is_hardware_wallet(Wallet) /\ USE_HARDWARE_ENCRYPTION
       THEN LET c == get_cached_key(NewKeyCache, <<"master_key_", DeviceId>>, now)
            IN IF c.key = NoKey
               THEN /\ proc' = [proc EXCEPT ![t].sub = "ckv"]
                    /\ UNCHANGED <<labels, labels_at>>
               ELSE /\ proc' = [proc EXCEPT ![t] =
                                  AfterKey(proc[t], HardwareValue(proc[t], c.key))]
                    /\ labels' = WalletAfterKey(proc[t],
                                     HardwareValue(proc[t], c.key), labels)
                    /\ labels_at' = StampAfter(labels, labels', labels_at, now)
       ELSE IF Wallet \in wallets
       THEN /\ proc' = [proc EXCEPT ![t] = AfterKey(proc[t], SoftwareValue(proc[t]))]
            /\ labels' = WalletAfterKey(proc[t], SoftwareValue(proc[t]), labels)
            /\ labels_at' = StampAfter(labels, labels', labels_at, now)
       ELSE /\ proc' = [proc EXCEPT ![t] = Ended(proc[t], NotRegistered(proc[t]))]
            /\ UNCHANGED <<labels, labels_at>>
    /\ UNCHANGED <<keystore, dropbox_tokens, store, server_modified, derived_at,
                   now, ops>>
    /\ UNCHANGED others

\* derive_master_key: the device answers (or fails); get_label_keys caches the
\* master key in its own SLIP15 instance, which dies with the call; any
\* exception makes the caller fall back to the software value, which a wallet
\* that is not registered does not have
DeviceAnswer(t, outcome) ==
    /\ proc[t].pc \in KeySteps
    /\ proc[t].sub = "ckv"
    /\ LET r == derive_master_key(DeviceId, outcome)
           v == IF r.ok THEN HardwareValue(proc[t], r.key)
                        ELSE SoftwareValue(proc[t])
           pr == [proc[t] EXCEPT !.deverr = @ \/ ~r.ok]
       IN /\ IF r.ok \/ Wallet \in wallets
             THEN /\ proc' = [proc EXCEPT ![t] = AfterKey(pr, v)]
                  /\ labels' = WalletAfterKey(pr, v, labels)
                  /\ labels_at' = StampAfter(labels, WalletAfterKey(pr, v, labels),
                                             labels_at, now)
             ELSE /\ proc' = [proc EXCEPT ![t] = Ended(pr, NotRegistered(pr))]
                  /\ UNCHANGED <<labels, labels_at>>
          /\ derived_at' = IF r.ok THEN now ELSE derived_at
    /\ UNCHANGED <<keystore, dropbox_tokens, store, server_modified, now, ops>>
    /\ UNCHANGED others

\* Faulty variant: not-found is re-raised like every other ApiError
DownloadResult_NotFoundRaises(pr, authenticated, net, obj) ==
    IF ~authenticated
    THEN Ended(pr, "No Dropbox token available")
    ELSE IF net = "fail"
    THEN Ended([pr EXCEPT !.answer = "error"], "ProviderError")
    ELSE IF obj.kind = "none"
    THEN Ended([pr EXCEPT !.answer = "not_found"], "ApiError")
    ELSE [pr EXCEPT !.answer = "content", !.data = obj, !.pc = "p_key"]

\* pull_labels lines 248-253 and 267-274: get_dropbox_client, files_download.
\* The store answers with the object, with not-found (the ApiError whose
\* error is a path error, taken as "no file yet": {}), or the call fails.
\* Faulty variant: a failed download is taken for "no file yet"
DownloadResult_FailureAsEmpty(pr, authenticated, net, obj) ==
    IF ~authenticated
    THEN Ended(pr, "No Dropbox token available")
    ELSE IF net = "fail"
    THEN PullReturns([pr EXCEPT !.answer = "error"], EmptyLabels)
    ELSE IF obj.kind = "none"
    THEN PullReturns([pr EXCEPT !.answer = "not_found"], EmptyLabels)
    ELSE [pr EXCEPT !.answer = "content", !.data = obj, !.pc = "p_key"]

DownloadResult(pr, authenticated, net, obj) ==
    IF ~authenticated
    THEN Ended(pr, "No Dropbox token available")
    ELSE IF net = "fail"
    THEN Ended([pr EXCEPT !.answer = "error"], "ProviderError")
    ELSE IF obj.kind = "none"
    THEN PullReturns([pr EXCEPT !.answer = "not_found"], EmptyLabels)
    ELSE [pr EXCEPT !.answer = "content", !.data = obj, !.pc = "p_key"]

Download(t, net) ==
    /\ proc[t].pc = "p_dl"
    /\ proc' = [proc EXCEPT ![t] =
         DownloadResult(proc[t], is_authenticated(Wallet), net,
                        store[proc[t].dpath])]
    /\ UNCHANGED <<keystore, dropbox_tokens, labels, store, labels_at,
                   server_modified, derived_at, now, ops>>
    /\ UNCHANGED others

\* push_labels lines 224-235, sync_label lines 184-190: get_dropbox_client,
\* files_upload of the packed labels in overwrite mode
Upload(t, net) ==
    /\ proc[t].pc = "u_up"
    /\ IF ~is_authenticated(Wallet)
       THEN /\ proc' = [proc EXCEPT ![t] =
                          Ended(proc[t], "No Dropbox token available")]
            /\ UNCHANGED <<store, server_modified>>
       ELSE IF net = "fail"
       THEN /\ proc' = [proc EXCEPT ![t] =
                          Ended([proc[t] EXCEPT !.upfail = TRUE], "ProviderError")]
            /\ UNCHANGED <<store, server_modified>>
       ELSE /\ proc' = [proc EXCEPT ![t] = Ended(proc[t], "")]
            /\ store' = [store EXCEPT ![proc[t].upath] =
                           pack_labels(proc[t].labs, proc[t].key)]
            /\ server_modified' = [server_modified EXCEPT ![proc[t].upath] = now]
    /\ UNCHANGED <<keystore, dropbox_tokens, labels, labels_at, derived_at,
                   now, ops>>
    /\ UNCHANGED others

\* complete_authentication: the flow finished and gave an access token; with
\* a wallet id the token is kept and stored encoded, without one it is dropped
complete_authentication(token) ==
    /\ IF Wallet \in wallets
       THEN /\ dropbox_tokens' = [dropbox_tokens EXCEPT ![WalletId(Wallet)] = token]
            /\ db' = encode(Wallet, token)
            /\ logged_out' = ""
       ELSE UNCHANGED <<dropbox_tokens, db, logged_out>>
    /\ UNCHANGED <<keystore, labels, store, proc, labels_at, server_modified,
                   derived_at, now, ops>>
    /\ UNCHANGED <<oauth, call, wallets>>

\* logout_dropbox: with a wallet id the token is popped and the stored one
\* set to None; without one nothing is done
logout_dropbox ==
    /\ IF Wallet \in wallets
       THEN /\ dropbox_tokens' = [dropbox_tokens EXCEPT ![WalletId(Wallet)] = NoToken]
            /\ db' = NoStored
            /\ logged_out' = "cleared"
       ELSE /\ UNCHANGED <<dropbox_tokens, db>>
            /\ logged_out' = "skipped"
    /\ UNCHANGED <<keystore, labels, store, proc, labels_at, server_modified,
                   derived_at, now, ops>>
    /\ UNCHANGED <<oauth, call, wallets>>

\* start_wallet: an offline wallet is left alone; otherwise the wallet is
\* registered, and a stored token is decoded, kept, and pull_labels(wallet,
\* False) scheduled on the network loop (one coroutine runs there at a time)
start_wallet(online) ==
    /\ IF ~online
       THEN UNCHANGED <<wallets, dropbox_tokens, proc, ops>>
       ELSE /\ wallets' = wallets \cup {Wallet}
            /\ IF db # NoStored /\ decode(Wallet, db).ok
               THEN /\ ~Running("loop")
                    /\ ops < MaxOps
                    /\ dropbox_tokens' = [dropbox_tokens EXCEPT
                                             ![WalletId(Wallet)] = decode(Wallet, db).msg]
                    /\ proc' = [proc EXCEPT !["loop"] =
                                  [IdleProc EXCEPT !.op = "pull", !.pc = "auth"]]
                    /\ ops' = ops + 1
               ELSE UNCHANGED <<dropbox_tokens, proc, ops>>
    /\ UNCHANGED <<keystore, labels, store, labels_at, server_modified,
                   derived_at, now, db, oauth, call, logged_out>>

\* Faulty variant: the wallet leaves plugin.wallets and its token stays
stop_wallet_KeepsToken ==
    /\ wallets' = wallets \ {Wallet}
    /\ UNCHANGED <<keystore, dropbox_tokens, labels, store, proc, labels_at,
                   server_modified, derived_at, now, ops, db, oauth, call,
                   logged_out>>

\* stop_wallet: the wallet leaves plugin.wallets and its token is popped
stop_wallet ==
    /\ wallets' = wallets \ {Wallet}
    /\ dropbox_tokens' = IF Wallet \in wallets
                         THEN [dropbox_tokens EXCEPT ![WalletId(Wallet)] = NoToken]
                         ELSE dropbox_tokens
    /\ UNCHANGED <<keystore, labels, store, proc, labels_at, server_modified,
                   derived_at, now, ops, db, oauth, call, logged_out>>

\* Time passes
Tick ==
    /\ now + TickStep <= MaxTime
    /\ now' = now + TickStep
    /\ UNCHANGED <<keystore, dropbox_tokens, labels, store, proc, labels_at,
                   server_modified, derived_at, ops>>
    /\ UNCHANGED others

Next ==
    \/ \E force \in BOOLEAN : StartPull(force)
    \/ StartPush
    \/ \E item \in Items, label \in LabelInputs : set_label(item, label)
    \/ \E t \in Threads : AuthCheck(t)
    \/ \E t \in Threads : KeyRequest(t)
    \/ \E t \in Threads, outcome \in DeviceOutcomes : DeviceAnswer(t, outcome)
    \/ \E t \in Threads, net \in NetOutcomes : Download(t, net)
    \/ \E t \in Threads, net \in NetOutcomes : Upload(t, net)

\* The sync operations of a wallet whose session does not change
Spec == Init /\ [][Next]_vars

NextSession ==
    \/ Next
    \/ \E token \in Tokens : complete_authentication(token)
    \/ logout_dropbox
    \/ Tick

\* The same with the clock running and the user logging in and out
SpecSession == Init /\ [][NextSession]_vars

\* The plugin from its construction: no wallet registered, no token in
\* memory, and in the wallet file the token of an earlier session or none
InitLogin ==
    /\ keystore \in {"trezor", "software"}
    /\ dropbox_tokens = [i \in {WalletId(Wallet)} |-> NoToken]
    /\ labels = [a |-> "x", b |-> Missing]
    /\ store = [q \in Paths |-> NoObject]
    /\ proc = [t \in Threads |-> IdleProc]
    /\ labels_at = 0
    /\ server_modified = [p \in Paths |-> 0]
    /\ derived_at = -1
    /\ now = 0
    /\ ops = 0
    /\ oauth = NewOAuth
    /\ call = NoCall
    /\ wallets = {}
    /\ logged_out = ""
    /\ db \in {StoredToken(Wallet, token) : token \in Tokens \cup {NoToken}}

\* The access tokens a login of this session can give
LoginTokens == Tokens \cup {"tok2"}

NextLogin ==
    \/ Next
    \/ \E online \in BOOLEAN : start_wallet(online)
    \/ stop_wallet
    \/ \E token \in LoginTokens : complete_authentication(token)
    \/ logout_dropbox

\* The sync operations of a wallet that is started, stopped, logged in and out
SpecLogin == InitLogin /\ [][NextLogin]_vars

\* The same for a software wallet, which makes no request to a device
InitWallet == InitLogin /\ keystore = "software"

NextWallet ==
    \/ \E force \in BOOLEAN : StartPull(force)
    \/ StartPush
    \/ \E item \in Items, label \in LabelInputs : set_label(item, label)
    \/ \E t \in Threads : AuthCheck(t)
    \/ \E t \in Threads : KeyRequest(t)
    \/ \E t \in Threads, net \in NetOutcomes : Download(t, net)
    \/ \E t \in Threads, net \in NetOutcomes : Upload(t, net)
    \/ \E online \in BOOLEAN : start_wallet(online)
    \/ stop_wallet
    \/ \E token \in LoginTokens : complete_authentication(token)
    \/ logout_dropbox

SpecWallet == InitWallet /\ [][NextWallet]_vars

----------------------------------------------------------------------------
(* The authorization flow on its own: the plugin's wallet is at rest *)

SyncAtRest ==
    /\ keystore = "software"
    /\ dropbox_tokens = [i \in {WalletId(Wallet)} |-> NoToken]
    /\ labels = [a |-> "x", b |-> Missing]
    /\ store = [q \in Paths |-> NoObject]
    /\ proc = [t \in Threads |-> IdleProc]
    /\ labels_at = 0
    /\ server_modified = [p \in Paths |-> 0]
    /\ derived_at = -1
    /\ ops = 0
    /\ wallets = {Wallet}
    /\ db = NoStored
    /\ logged_out = ""

syncVars == <<keystore, dropbox_tokens, labels, store, proc, labels_at,
              server_modified, derived_at, ops, wallets, db, logged_out>>

InitOAuth ==
    /\ SyncAtRest
    /\ now = 0
    /\ oauth = NewOAuth
    /\ call = NoCall

StateInputs == {OAuthState(n) : n \in 1..MaxFlows} \cup {WrongState, NoState}
CodeInputs == {AuthCode(n) : n \in 1..MaxFlows} \cup {BadCode}

GetAuthorizationUrl ==
    /\ oauth.flows < MaxFlows
    /\ oauth' = get_authorization_url(oauth)
    /\ UNCHANGED <<syncVars, now, call>>

ExchangeCodeForToken(code, state, net, with_expiry) ==
    /\ oauth.exchanges < MaxExchanges
    /\ oauth' = exchange_code_for_token(oauth, code, state, net, with_expiry, now)
    /\ UNCHANGED <<syncVars, now, call>>

NextOAuth ==
    \/ GetAuthorizationUrl
    \/ \E code \in CodeInputs, state \in StateInputs, net \in NetOutcomes,
          with_expiry \in BOOLEAN :
            ExchangeCodeForToken(code, state, net, with_expiry)
    \/ Tick

SpecOAuth == InitOAuth /\ [][NextOAuth]_vars

----------------------------------------------------------------------------
(* The codec and the expiry test on their own: one call from its inputs to   *)
(* its result                                                                *)

InitCodec ==
    /\ SyncAtRest
    /\ now = 0
    /\ oauth = NewOAuth
    /\ call \in CodecCalls \cup KeyCalls \cup PkceCalls

\* pack_labels(labs, key)
PackLabels ==
    /\ call.fn = "labels" /\ call.stage = "in"
    /\ LET r == pack_labels_bytes(call.labs, call.key, "n1")
       IN call' = [call EXCEPT !.stage = IF r.ok THEN "packed" ELSE "failed",
                               !.packed = r, !.data = r.data]
    /\ UNCHANGED <<syncVars, now, oauth>>

\* Another writer that holds the key seals a document of its own
WriteDocument ==
    /\ call.fn = "document" /\ call.stage = "in"
    /\ LET e == encrypt(call.key, utf8_encode(json_dumps(call.doc)), "n1")
       IN call' = [call EXCEPT !.stage = "packed",
                               !.packed = [ok |-> TRUE, err |-> "",
                                           data |-> e.nonce \o e.ciphertext \o e.tag],
                               !.data = e.nonce \o e.ciphertext \o e.tag]
    /\ UNCHANGED <<syncVars, now, oauth>>

\* encrypt(key, p)
Encrypt ==
    /\ call.fn = "bytes" /\ call.stage = "in"
    /\ LET e == encrypt(call.key, call.p, "n1")
       IN call' = [call EXCEPT !.stage = IF e.ok THEN "packed" ELSE "failed",
                               !.packed = e,
                               !.data = e.nonce \o e.ciphertext \o e.tag]
    /\ UNCHANGED <<syncVars, now, oauth>>

\* The envelope is stored and comes back, damaged or not
Transit ==
    /\ call.fn \in {"labels", "document", "bytes"} /\ call.stage = "packed"
    /\ call' = [call EXCEPT !.stage = "read", !.data = Damaged(call.data, call.damage)]
    /\ UNCHANGED <<syncVars, now, oauth>>

\* unpack_labels(data, key2)
UnpackLabels ==
    /\ call.fn \in {"labels", "document"} /\ call.stage = "read"
    /\ call' = [call EXCEPT !.stage = "opened",
                            !.out = unpack_labels_bytes(call.data, call.key2)]
    /\ UNCHANGED <<syncVars, now, oauth>>

\* decrypt(key2, ciphertext, nonce, tag)
Decrypt ==
    /\ call.fn = "bytes" /\ call.stage = "read"
    /\ call' = [call EXCEPT
          !.stage = "opened",
          !.out = decrypt(call.key2,
                          SubSeq(call.data, NONCE_SIZE + 1, Len(call.data) - TAG_SIZE),
                          SubSeq(call.data, 1, NONCE_SIZE),
                          SubSeq(call.data, Len(call.data) - TAG_SIZE + 1,
                                 Len(call.data)))]
    /\ UNCHANGED <<syncVars, now, oauth>>

\* is_token_expired(token_data) at time t
IsTokenExpired ==
    /\ call.fn = "is_token_expired" /\ call.stage = "in"
    /\ call' = [call EXCEPT !.stage = "opened",
                            !.out = [ok |-> TRUE, err |-> "",
                                     expired |-> is_token_expired(call.token_data,
                                                                  call.t)]]
    /\ UNCHANGED <<syncVars, now, oauth>>

\* get_label_keys lines 229-236: the cache is asked for the master key, which
\* removes an expired entry; a key found there is used
GetCachedKey ==
    /\ call.fn = "get_label_keys" /\ call.stage = "in"
    /\ LET c == IF call.use_cache
                THEN get_cached_key(call.cache, <<"master_key_", DeviceId>>, call.t)
                ELSE [key |-> NoKey, cache |-> call.cache]
       IN call' = IF c.key # NoKey
                  THEN [call EXCEPT !.stage = "opened", !.cache = c.cache,
                                    !.before = c.cache,
                                    !.out = [ok |-> TRUE, err |-> "",
                                             keys |-> get_label_keys(c.key, 0)]]
                  ELSE [call EXCEPT !.stage = "derive", !.cache = c.cache]
    /\ UNCHANGED <<syncVars, now, oauth>>

\* get_label_keys lines 238-255: derive_master_key; its exception leaves the
\* method, its result is cached and the account keys are derived from it
DeriveMasterKey(outcome) ==
    /\ call.fn = "get_label_keys" /\ call.stage = "derive"
    /\ LET r == derive_master_key(DeviceId, outcome)
       IN call' = IF r.ok
                  THEN [call EXCEPT
                          !.stage = "opened", !.before = call.cache,
                          !.outcome = outcome,
                          !.cache = IF call.use_cache
                                    THEN cache_key(call.cache,
                                                   <<"master_key_", DeviceId>>,
                                                   r.key, DefaultTimeout, call.t)
                                    ELSE call.cache,
                          !.out = [ok |-> TRUE, err |-> "",
                                   keys |-> get_label_keys(r.key, 0)]]
                  ELSE [call EXCEPT
                          !.stage = "opened", !.before = call.cache,
                          !.outcome = outcome,
                          !.out = [ok |-> FALSE, err |-> r.err]]
    /\ UNCHANGED <<syncVars, now, oauth>>

\* derive_account_key(master_key, LABELS, i), the same call again, and the
\* call for account j
DeriveAccountKey ==
    /\ call.fn = "derive_account_key" /\ call.stage = "in"
    /\ call' = [call EXCEPT
          !.stage = "opened",
          !.out = derive_account_key(call.master_key, "Labels", call.i),
          !.again = derive_account_key(call.master_key, "Labels", call.i),
          !.other = derive_account_key(call.master_key, "Labels", call.j)]
    /\ UNCHANGED <<syncVars, now, oauth>>

\* DropboxOAuth2.generate_pkce_params
GeneratePkceParams ==
    /\ call.fn = "generate_pkce_params" /\ call.stage = "in"
    /\ call' = [call EXCEPT !.stage = "opened",
                            !.out = generate_pkce_params(call.random, call.digest)]
    /\ UNCHANGED <<syncVars, now, oauth>>

NextCodec ==
    \/ GetCachedKey
    \/ GeneratePkceParams
    \/ \E outcome \in DeviceOutcomes : DeriveMasterKey(outcome)
    \/ DeriveAccountKey
    \/ PackLabels
    \/ WriteDocument
    \/ Encrypt
    \/ Transit
    \/ UnpackLabels
    \/ Decrypt
    \/ IsTokenExpired

SpecCodec == InitCodec /\ [][NextCodec]_vars

----------------------------------------------------------------------------
(* The import of Trezor Suite labels on its own: one call of the dialog's    *)
(* ImportThread for a wallet that runs no other operation                    *)

InitImport ==
    /\ keystore \in {"trezor", "software"}
    /\ dropbox_tokens \in [{WalletId(Wallet)} -> Tokens \cup {NoToken}]
    /\ labels = [a |-> "x", b |-> Missing]
    /\ store = [q \in Paths |-> NoObject]
    /\ proc = [t \in Threads |-> IdleProc]
    /\ labels_at = 0
    /\ server_modified = [p \in Paths |-> 0]
    /\ derived_at = -1
    /\ ops = 0
    /\ now = 0
    /\ oauth = NewOAuth
    /\ call \in ImportCalls
    /\ wallets = {Wallet}
    /\ db = StoredToken(Wallet, dropbox_tokens[WalletId(Wallet)])
    /\ logged_out = ""

\* ImportThread.run: import_trezor_suite_labels(wallet); net is the answer to
\* files_list_folder, outcome that of the device to the key request
ImportTrezorSuiteLabels(net, outcome) ==
    /\ call.fn = "import" /\ call.stage = "in"
    /\ LET r == import_trezor_suite_labels(call.entries, is_authenticated(Wallet),
                                           is_hardware_wallet(Wallet), net, outcome,
                                           labels)
       IN /\ call' = [call EXCEPT !.stage = "opened", !.before = labels, !.out = r]
          /\ labels' = r.labels
          /\ labels_at' = StampAfter(labels, r.labels, labels_at, now)
          /\ derived_at' = IF r.res = "returned" /\ r.key = HardwareKey(DeviceId)
                           THEN now ELSE derived_at
    /\ UNCHANGED <<keystore, dropbox_tokens, store, proc, server_modified, ops,
                   now, oauth, wallets, db, logged_out>>

NextImport ==
    \E net \in NetOutcomes, outcome \in DeviceOutcomes :
        ImportTrezorSuiteLabels(net, outcome)

SpecImport == InitImport /\ [][NextImport]_vars

----------------------------------------------------------------------------
(* The plugin's authorization flow with two wallets open *)

MaxAuthFlows == 3

AuthWallets == {"w1", "w2"}

\* The token the provider issues for the n-th authorization URL
FlowToken(n) == "token" \o ToString(n)

\* DropboxLabelsPlugin.__init__ and start_wallet of both wallets, none with a
\* stored token: auth_flow is None (0); started_for remembers for which wallet
\* each flow was started, redeemed the flows whose code the provider has taken
NewPlugin ==
    [fn |-> "plugin", auth_flow |-> 0, started_for |-> <<>>, redeemed |-> {},
     dropbox_tokens |-> [w \in AuthWallets |-> NoToken],
     last |-> [op |-> "", wallet |-> "", ok |-> FALSE]]

InitAuthFlow ==
    /\ SyncAtRest
    /\ now = 0
    /\ oauth = NewOAuth
    /\ call = NewPlugin

\* authenticate_dropbox(wallet): a new DropboxOAuth2FlowNoRedirect replaces
\* the plugin's auth_flow
AuthenticateDropbox(w) ==
    /\ Len(call.started_for) < MaxAuthFlows
    /\ call' = [call EXCEPT
          !.auth_flow = Len(call.started_for) + 1,
          !.started_for = Append(call.started_for, w),
          !.last = [op |-> "authenticate", wallet |-> w, ok |-> TRUE]]
    /\ UNCHANGED <<syncVars, now, oauth>>

\* complete_authentication(wallet, auth_code) with the code of the n-th URL
\* (0: a code the provider never issued): auth_flow.finish succeeds when the
\* code was issued for this flow and is unused; every exception gives False
CompleteAuthentication(w, n) ==
    /\ call' = IF call.auth_flow # 0 /\ n = call.auth_flow /\ n \notin call.redeemed
               THEN [call EXCEPT
                       !.redeemed = call.redeemed \cup {n},
                       !.dropbox_tokens[w] = FlowToken(n),
                       !.last = [op |-> "complete", wallet |-> w, ok |-> TRUE]]
               ELSE [call EXCEPT
                       !.redeemed = IF n = call.auth_flow
                                    THEN call.redeemed \cup {n} ELSE call.redeemed,
                       !.last = [op |-> "complete", wallet |-> w, ok |-> FALSE]]
    /\ UNCHANGED <<syncVars, now, oauth>>

\* logout_dropbox(wallet) of a registered wallet
LogoutDropbox(w) ==
    /\ call' = [call EXCEPT
          !.dropbox_tokens[w] = NoToken,
          !.last = [op |-> "logout", wallet |-> w, ok |-> TRUE]]
    /\ UNCHANGED <<syncVars, now, oauth>>

NextAuthFlow ==
    \/ \E w \in AuthWallets : AuthenticateDropbox(w)
    \/ \E w \in AuthWallets, n \in 0..MaxAuthFlows : CompleteAuthentication(w, n)
    \/ \E w \in AuthWallets : LogoutDropbox(w)

SpecAuthFlow == InitAuthFlow /\ [][NextAuthFlow]_vars

----------------------------------------------------------------------------
(* One SLIP15 object's key cache under any sequence of its three methods *)

MaxCacheOps == 4
MaxCacheTime == 3

KeyIds == {<<"master_key_", DeviceId>>, <<"master_key_", "dev2">>}
CachedKeys == {MasterKey(DeviceId), MasterKey("dev2")}
Timeouts == {0, 1, 2}

\* No cache_key call for the id since construction or the last clear_cache
NoLatest == [key |-> NoKey, at |-> -1, timeout |-> 0]
NoLookup == [id |-> <<>>, key |-> NoKey, t |-> 0, latest |-> NoLatest, after |-> NoEntry]

\* SLIP15.__init__; t is time.time(), n counts the calls, latest remembers the
\* last cache_key call of each id, got the last get_cached_key call
NewCache ==
    [fn |-> "cache", cache |-> [id \in KeyIds |-> NoEntry], t |-> 0, n |-> 0,
     latest |-> [id \in KeyIds |-> NoLatest], got |-> NoLookup]

InitCache ==
    /\ SyncAtRest
    /\ now = 0
    /\ oauth = NewOAuth
    /\ call = NewCache

CacheStore(id, key, timeout) ==
    /\ call.n < MaxCacheOps
    /\ call' = [call EXCEPT
          !.cache = cache_key(call.cache, id, key, timeout, call.t),
          !.latest[id] = [key |-> key, at |-> call.t, timeout |-> timeout],
          !.n = call.n + 1]
    /\ UNCHANGED <<syncVars, now, oauth>>

CacheLookup(id) ==
    /\ call.n < MaxCacheOps
    /\ LET r == get_cached_key(call.cache, id, call.t)
       IN call' = [call EXCEPT
                     !.cache = r.cache,
                     !.got = [id |-> id, key |-> r.key, t |-> call.t,
                              latest |-> call.latest[id], after |-> r.cache[id]],
                     !.n = call.n + 1]
    /\ UNCHANGED <<syncVars, now, oauth>>

CacheClear ==
    /\ call.n < MaxCacheOps
    /\ call' = [call EXCEPT
          !.cache = clear_cache(call.cache),
          !.latest = [id \in KeyIds |-> NoLatest],
          !.n = call.n + 1]
    /\ UNCHANGED <<syncVars, now, oauth>>

\* time.time() moves on between two calls
CacheTick ==
    /\ call.t < MaxCacheTime
    /\ call' = [call EXCEPT !.t = call.t + 1]
    /\ UNCHANGED <<syncVars, now, oauth>>

NextCache ==
    \/ \E id \in KeyIds, key \in CachedKeys, timeout \in Timeouts :
          CacheStore(id, key, timeout)
    \/ \E id \in KeyIds : CacheLookup(id)
    \/ CacheClear
    \/ CacheTick

SpecCache == InitCache /\ [][NextCache]_vars

----------------------------------------------------------------------------
(* The four operations that reach the object store, with a logout at any time *)

\* The folder of Trezor Suite when the import is started from the dialog
GateFolders ==
    {<<>>,
     <<[mtdt |-> TRUE, net |-> "ok",
        obj |-> pack_labels([a |-> "y", b |-> "y"], HardwareKey(DeviceId))]>>}

InitGate ==
    /\ keystore \in {"trezor", "software"}
    /\ dropbox_tokens \in [{WalletId(Wallet)} -> Tokens \cup {NoToken}]
    /\ labels = [a |-> "x", b |-> Missing]
    /\ store = [q \in Paths |-> NoObject]
    /\ proc = [t \in Threads |-> IdleProc]
    /\ labels_at = 0
    /\ server_modified = [p \in Paths |-> 0]
    /\ derived_at = -1
    /\ now = 0
    /\ ops = 0
    /\ oauth = NewOAuth
    /\ call = NoCall
    /\ wallets = {Wallet}
    /\ db = StoredToken(Wallet, dropbox_tokens[WalletId(Wallet)])
    /\ logged_out = ""

\* ImportThread.run: import_trezor_suite_labels on the thread's own event
\* loop; token remembers whether the wallet had a token when it was called
ImportThreadRun(entries, net, outcome) ==
    /\ ops < MaxOps
    /\ call.fn \in {"none", "import"}
    /\ LET r == import_trezor_suite_labels(entries, is_authenticated(Wallet),
                                           is_hardware_wallet(Wallet), net, outcome,
                                           labels)
       IN /\ call' = [fn |-> "import", stage |-> "opened", entries |-> entries,
                      before |-> labels, out |-> r,
                      token |-> is_authenticated(Wallet)]
          /\ labels' = r.labels
          /\ labels_at' = StampAfter(labels, r.labels, labels_at, now)
          /\ derived_at' = IF r.res = "returned" /\ r.key = HardwareKey(DeviceId)
                           THEN now ELSE derived_at
    /\ ops' = ops + 1
    /\ UNCHANGED <<keystore, dropbox_tokens, store, proc, server_modified,
                   now, oauth, wallets, db, logged_out>>

NextGate ==
    \/ \E force \in BOOLEAN : StartPull(force)
    \/ StartPush
    \/ \E item \in Items, label \in LabelInputs : set_label(item, label)
    \/ \E t \in Threads : AuthCheck(t)
    \/ \E t \in Threads : KeyRequest(t)
    \/ \E t \in Threads, outcome \in DeviceOutcomes : DeviceAnswer(t, outcome)
    \/ \E t \in Threads, net \in NetOutcomes : Download(t, net)
    \/ \E t \in Threads, net \in NetOutcomes : Upload(t, net)
    \/ logout_dropbox
    \/ \E entries \in GateFolders, net \in NetOutcomes, outcome \in DeviceOutcomes :
          ImportThreadRun(entries, net, outcome)

SpecGate == InitGate /\ [][NextGate]_vars

----------------------------------------------------------------------------
(* MultiAccountWallet (multi_account_wallet.py): the accounts of one wallet *)

MaxIndex == 1
MaxAcctOps == 2

AccountIndices == 0..MaxIndex
AcctThreads == {"t1", "t2"}
GapLimits == {0, 1, 2}

\* account_index = None
NoIndex == -1

\* max(self.accounts.keys(), default=-1)
MaxKey(accounts) ==
    IF accounts = {} THEN -1
    ELSE CHOOSE m \in accounts : \A x \in accounts : x <= m

\* Faulty variant: the lock is not taken
LockFree_NoLock(lock, t) == TRUE

\* threading.RLock: free, or held by the thread that asks
LockFree(lock, t) == lock = "none" \/ lock = t

IdleCaller == [pc |-> "idle", arg |-> NoIndex, idx |-> NoIndex, res |-> ""]
NoLast == [op |-> "", arg |-> NoIndex, res |-> "", ret |-> <<>>, hist |-> {},
           gap |-> 0, accounts |-> {}, current |-> 0]

\* _account_has_history: derive_address raises for an account that is not in
\* accounts, every such exception is swallowed and the answer is False; for
\* an account that exists the addresses are looked up in the history
account_has_history(accounts, hist, account_index) ==
    account_index \in accounts /\ account_index \in hist

\* discover_accounts from the loop head: the list returned and the accounts
\* afterwards (add_account for a discovered index that does not exist)
RECURSIVE discover_accounts(_, _, _, _, _, _)
discover_accounts(accounts, hist, gap_limit, account_index, empty_count, discovered) ==
    IF ~(empty_count < gap_limit)
    THEN [discovered |-> discovered, accounts |-> accounts]
    ELSE IF account_has_history(accounts, hist, account_index)
    THEN discover_accounts(accounts \cup {account_index}, hist, gap_limit,
                           account_index + 1, 0, Append(discovered, account_index))
    ELSE discover_accounts(accounts, hist, gap_limit,
                           account_index + 1, empty_count + 1, discovered)

\* The wallet file before the wallet object is built: the stored accounts,
\* the stored current account and whether a master keystore is stored
WalletFiles ==
    {[fn |-> "wallet", phase |-> "db", keystore |-> k, stored |-> st,
      stored_current |-> c, accounts |-> {}, current_account |-> 0,
      lock |-> "none", th |-> [t \in AcctThreads |-> IdleCaller],
      created |-> <<>>, n |-> 0, last |-> NoLast] :
        k \in BOOLEAN, st \in SUBSET AccountIndices, c \in {0, 1}}

InitAccounts ==
    /\ SyncAtRest
    /\ now = 0
    /\ oauth = NewOAuth
    /\ call \in WalletFiles

\* MultiAccountWallet.__init__: _load_accounts_from_db, which loads nothing
\* without a master keystore, then add_account(0) when no account was loaded;
\* its ValueError leaves the constructor
Construct ==
    /\ call.fn = "wallet" /\ call.phase = "db"
    /\ LET loaded == IF call.keystore THEN call.stored ELSE {}
       IN call' =
            IF loaded # {}
            THEN [call EXCEPT !.phase = "live", !.accounts = loaded,
                              !.current_account = 0,
                              !.last = [NoLast EXCEPT !.op = "construct", !.res = "ok"]]
            ELSE IF ~call.keystore
            THEN [call EXCEPT !.phase = "failed",
                              !.last = [NoLast EXCEPT
                                          !.op = "construct",
                                          !.res = "ValueError: No master keystore found"]]
            ELSE [call EXCEPT !.phase = "live", !.accounts = {0},
                              !.current_account = 0,
                              !.stored = {0}, !.stored_current = 0,
                              !.created = <<0>>,
                              !.last = [NoLast EXCEPT !.op = "construct", !.res = "ok"]]
    /\ UNCHANGED <<syncVars, now, oauth>>

\* A thread calls add_account(account_index)
AddAccountCall(t, arg) ==
    /\ call.fn = "wallet" /\ call.phase = "live"
    /\ call.th[t].pc \in {"idle", "done"}
    /\ call.n < MaxAcctOps
    /\ call' = [call EXCEPT !.th[t] = [IdleCaller EXCEPT !.pc = "lock", !.arg = arg],
                            !.n = call.n + 1]
    /\ UNCHANGED <<syncVars, now, oauth>>

\* add_account line 117: with self._account_lock
AddAccountLock(t) ==
    /\ call.fn = "wallet" /\ call.th[t].pc = "lock"
    /\ LockFree(call.lock, t)
    /\ call' = [call EXCEPT !.lock = t, !.th[t].pc = "check"]
    /\ UNCHANGED <<syncVars, now, oauth>>

\* add_account lines 118-128: the index, and the two tests that raise
AddAccountCheck(t) ==
    /\ call.fn = "wallet" /\ call.th[t].pc = "check"
    /\ LET account_index == IF call.th[t].arg = NoIndex
                            THEN MaxKey(call.accounts) + 1
                            ELSE call.th[t].arg
       IN call' =
            IF account_index \in call.accounts
            THEN [call EXCEPT !.lock = "none", !.th[t].pc = "done",
                              !.th[t].idx = account_index,
                              !.th[t].res = "ValueError: already exists"]
            ELSE IF ~call.keystore
            THEN [call EXCEPT !.lock = "none", !.th[t].pc = "done",
                              !.th[t].idx = account_index,
                              !.th[t].res = "ValueError: No master keystore found"]
            ELSE [call EXCEPT !.th[t].pc = "insert", !.th[t].idx = account_index]
    /\ UNCHANGED <<syncVars, now, oauth>>

\* add_account lines 130-134: the account is put into self.accounts
AddAccountInsert(t) ==
    /\ call.fn = "wallet" /\ call.th[t].pc = "insert"
    /\ call' = [call EXCEPT !.accounts = call.accounts \cup {call.th[t].idx},
                            !.created = Append(call.created, call.th[t].idx),
                            !.th[t].pc = "save"]
    /\ UNCHANGED <<syncVars, now, oauth>>

\* add_account lines 137-143: _save_accounts_to_db, the first addresses, the
\* lock is released and the index returned
AddAccountSave(t) ==
    /\ call.fn = "wallet" /\ call.th[t].pc = "save"
    /\ call' = [call EXCEPT !.stored = call.accounts,
                            !.stored_current = call.current_account,
                            !.lock = "none",
                            !.th[t].pc = "done", !.th[t].res = "ok"]
    /\ UNCHANGED <<syncVars, now, oauth>>

\* set_current_account(account_index)
SetCurrentAccount(account_index) ==
    /\ call.fn = "wallet" /\ call.phase = "live"
    /\ call.n < MaxAcctOps
    /\ LET before == [NoLast EXCEPT !.op = "set_current_account",
                                    !.arg = account_index,
                                    !.accounts = call.accounts,
                                    !.current = call.current_account]
       IN call' =
            IF account_index \notin call.accounts
            THEN [call EXCEPT !.n = call.n + 1,
                              !.last = [before EXCEPT !.res = "ValueError: does not exist"]]
            ELSE [call EXCEPT !.n = call.n + 1,
                              !.current_account = account_index,
                              !.stored = call.accounts,
                              !.stored_current = account_index,
                              !.last = [before EXCEPT !.res = "ok"]]
    /\ UNCHANGED <<syncVars, now, oauth>>

\* discover_accounts(gap_limit) with the accounts of hist having transaction
\* history on their addresses
DiscoverAccounts(hist, gap_limit) ==
    /\ call.fn = "wallet" /\ call.phase = "live"
    /\ call.lock = "none"
    /\ call.n < MaxAcctOps
    /\ LET r == discover_accounts(call.accounts, hist, gap_limit, 0, 0, <<>>)
       IN call' = [call EXCEPT
                     !.n = call.n + 1,
                     !.accounts = r.accounts,
                     !.stored = IF r.accounts # call.accounts
                                THEN r.accounts ELSE call.stored,
                     !.stored_current = IF r.accounts # call.accounts
                                        THEN call.current_account
                                        ELSE call.stored_current,
                     !.last = [NoLast EXCEPT !.op = "discover_accounts",
                                             !.res = "ok", !.ret = r.discovered,
                                             !.hist = hist, !.gap = gap_limit,
                                             !.accounts = call.accounts,
                                             !.current = call.current_account]]
    /\ UNCHANGED <<syncVars, now, oauth>>

NextAccounts ==
    \/ Construct
    \/ \E t \in AcctThreads, arg \in AccountIndices \cup {NoIndex} : AddAccountCall(t, arg)
    \/ \E t \in AcctThreads : AddAccountLock(t)
    \/ \E t \in AcctThreads : AddAccountCheck(t)
    \/ \E t \in AcctThreads : AddAccountInsert(t)
    \/ \E t \in AcctThreads : AddAccountSave(t)
    \/ \E account_index \in 0..(MaxIndex + 1) : SetCurrentAccount(account_index)
    \/ \E hist \in SUBSET AccountIndices, gap_limit \in GapLimits :
          DiscoverAccounts(hist, gap_limit)

SpecAccounts == InitAccounts /\ [][NextAccounts]_vars

----------------------------------------------------------------------------
(* Claims *)

\* An object the wallet can read back: none, or a version-1 JSON envelope
\* under one of its keys
ReadableOwn(obj) ==
    \/ obj.kind = "none"
    \/ obj.kind = "env" /\ obj.json /\ obj.version = VERSION /\ obj.key \in OwnKeys

StoredLabels(obj) == IF obj.kind = "none" THEN EmptyLabels ELSE obj.labels

\* The step in which sync_label uploads and completes
SyncCompletes(t) ==
    /\ proc[t].op = "sync" /\ proc[t].pc = "u_up"
    /\ proc'[t].pc = "done" /\ proc'[t].err = ""

\* C1: when sync_label(wallet, item, label) completes successfully, the object
\* at the wallet's remote path holds the label set stored there before with
\* exactly one change: item maps to label, or is absent when label is empty,
\* and every other key keeps its remote value.  (Stated for a sync_label
\* that is the only operation run so far.)
C1_SyncLabelChangesOneRemoteLabel ==
    [][\A t \in Threads :
         (SyncCompletes(t) /\ ops = 1 /\ ReadableOwn(store[proc[t].upath])) =>
            LET before == StoredLabels(store[proc[t].upath])
                after == store'[proc[t].upath]
            IN /\ after.kind = "env" /\ ReadableOwn(after)
               /\ after.labels[proc[t].item] =
                     (IF proc[t].label # "" THEN proc[t].label ELSE Missing)
               /\ \A k \in Items \ {proc[t].item} : after.labels[k] = before[k]
      ]_vars

InFlight(t) == proc[t].pc \notin {"idle", "auth", "done"}

\* C3: for one wallet at most one sync operation is in flight at any time.
C3_OneSyncInFlight == Cardinality({t \in Threads : InFlight(t)}) <= 1

\* The step in which a pull_labels call unpacks, merges and returns
PullMerges(t) ==
    /\ proc[t].op = "pull" /\ proc[t].pc = "p_key"
    /\ proc'[t].pc = "done" /\ proc'[t].err = ""

\* C4: the merge of a pull keeps, for a key both sides hold, the value modified
\* later, the remote one when the times are equal; a key only one side holds
\* keeps that side's value.
C4_MergeKeepsLaterValue ==
    [][\A t \in Threads : PullMerges(t) =>
         \A k \in Items :
            LET remote == proc'[t].ret[k]
                local == labels[k]
                remote_time == server_modified[proc[t].dpath]
            IN labels'[k] =
                 IF remote = Missing THEN local
                 ELSE IF get_label(labels, k) = "" THEN remote
                 ELSE IF remote_time >= labels_at THEN remote
                 ELSE local
      ]_vars

\* C5: an operation whose downloaded object fails to unpack ends in a failure
\* raised to its caller.
C5_BadDownloadIsRaised ==
    \A t \in Threads :
        (proc[t].pc = "done" /\ proc[t].dlbad) => proc[t].res = "raised"

\* A thread is inside the pull_labels part of its operation
InPull(pr) ==
    pr.op \in {"pull", "sync"} /\ pr.pc \in {"auth", "p_fn", "p_dl", "p_key"}

\* C6: a pull_labels call that fails leaves every local label as it was: a
\* step of a pull that changes a label is the step in which the pull returns
\* its label set, after which that pull cannot fail.
C6_FailedPullLeavesLabels ==
    [][\A t \in Threads :
         (InPull(proc[t]) /\ proc'[t] # proc[t] /\ labels' # labels) =>
            /\ proc[t].pc = "p_key"
            /\ proc'[t].err = ""
            /\ proc'[t].pc \in {"done", "u_key"}
      ]_vars

C6_Witness ==
    \E t \in Threads :
        /\ proc[t].op = "pull" /\ proc[t].pc = "done"
        /\ proc[t].res = "raised" /\ proc[t].err = "ValueError: version"
        /\ labels = [a |-> "x", b |-> Missing]

\* C7: when the upload of push_labels or sync_label fails, the provider error
\* is raised to the caller of the operation.
C7_FailedUploadIsRaised ==
    \A t \in Threads :
        (proc[t].pc = "done" /\ proc[t].upfail) => proc[t].res = "raised"

\* C8: no operation fails because of a device error: none in which a device
\* request failed ends with a tag failure on an object that one of the
\* wallet's own keys unpacks.
C8_DeviceErrorNeverFailsSync ==
    \A t \in Threads :
        ~(proc[t].pc = "done" /\ proc[t].deverr /\ proc[t].tagown
             /\ proc[t].err = "InvalidTag")

\* C9: within DefaultTimeout of a successful master-key derivation no key
\* request misses the cache and goes to the device.
C9_CachedMasterKeyServesRequests ==
    [][\A t \in Threads :
         (proc[t].sub = "" /\ proc'[t].sub = "ckv") =>
            ~(derived_at >= 0 /\ now < derived_at + DefaultTimeout)
      ]_vars

\* C10: at most one caller at a time is waiting for the device to derive the
\* master key.
C10_SingleDerivationInFlight ==
    Cardinality({t \in Threads : proc[t].sub = "ckv"}) <= 1

\* C11: exchange_code_for_token with a state other than the one the latest
\* get_authorization_url generated raises the CSRF error and sends no request
\* to the token endpoint.
C11_WrongStateSendsNothing ==
    [][\A code \in CodeInputs, state \in StateInputs, net \in NetOutcomes,
          with_expiry \in BOOLEAN :
            (ExchangeCodeForToken(code, state, net, with_expiry)
                /\ oauth.flows > 0 /\ state # OAuthState(oauth.flows)) =>
               /\ oauth'.res = "Invalid state parameter"
               /\ oauth'.posts = oauth.posts
               /\ oauth'.redeemed = oauth.redeemed
               /\ oauth'.token_data = oauth.token_data
      ]_vars

C11_Witness ==
    /\ oauth.flows > 0
    /\ oauth.res = "Invalid state parameter"
    /\ oauth.posts = 0

\* C12: after an exchange has failed with a CSRF mismatch or a rejected code,
\* no exchange succeeds until get_authorization_url has started a new flow.
C12_FailedFlowIsTerminal ==
    [][(oauth'.exchanges > oauth.exchanges /\ oauth'.res = "token")
          => ~oauth.failed]_vars

\* C13: is_token_expired(token) is true exactly when now > expires_at - 300:
\* expired at expires_at = now + 200, not expired at now + 400 nor at now + 300
\* exactly, and expired when the token has no expires_at.
C13_ExpiredWithinFiveMinutes ==
    (call.fn = "is_token_expired" /\ call.stage = "opened") =>
        LET tok == call.token_data
        IN /\ tok.has_expires_at =>
                (call.out.expired <=> call.t > tok.expires_at - 300)
           /\ (tok.has_expires_at /\ tok.expires_at = call.t + 200) => call.out.expired
           /\ (tok.has_expires_at /\ tok.expires_at = call.t + 400) => ~call.out.expired
           /\ (tok.has_expires_at /\ tok.expires_at = call.t + 300) => ~call.out.expired
           /\ ~tok.has_expires_at => call.out.expired

C13_Witness ==
    /\ call.fn = "is_token_expired" /\ call.stage = "opened"
    /\ call.token_data.has_expires_at
    /\ call.token_data.expires_at = call.t + 300
    /\ ~call.out.expired

\* A call whose reader has the writer's 32-byte key and gets the envelope as
\* it was written
Intact ==
    /\ call.stage = "opened"
    /\ KeyLength(call.key) = 32
    /\ call.key2 = call.key
    /\ call.damage = "none"

\* C14: unpack_labels(pack_labels(L, k), k) = L for every label map L and
\* 32-byte key k, and decrypt(k, encrypt(k, p)) = p for every byte string p.
C14_RoundTrip ==
    /\ (call.fn = "labels" /\ Intact) =>
          (call.out.ok /\ call.out.labels = call.labs)
    /\ (call.fn = "bytes" /\ Intact) =>
          (call.out.ok /\ call.out.plaintext = call.p)

C14_Witness ==
    /\ call.fn = "labels" /\ Intact
    /\ call.labs = [a |-> <<"e-acute", "euro">>, b |-> <<"\"", "\\">>]
    /\ call.out.ok
    /\ call.out.labels = call.labs

\* C15: decrypt and unpack_labels return a result only when the tag verifies
\* under the given key: a result is returned only for the untouched output
\* read with the encryption key, and a complete envelope read with another
\* 32-byte key, or with a bit of the ciphertext or of the tag flipped, raises
\* the authentication failure and returns nothing.
C15_OnlyAuthenticatedData ==
    (call.fn \in {"labels", "bytes"} /\ call.stage = "opened") =>
        /\ call.out.ok => (call.key2 = call.key /\ call.damage = "none")
        /\ (/\ KeyLength(call.key2) = KEY_SIZE
            /\ call.damage # "truncate"
            /\ (call.key2 # call.key \/ call.damage \in {"flip_ct", "flip_tag"}))
            => (~call.out.ok /\ call.out.err = "InvalidTag")

C15_Witness ==
    /\ call.fn = "labels" /\ call.stage = "opened"
    /\ call.damage = "flip_ct"
    /\ call.key2 = call.key
    /\ call.out.err = "InvalidTag"

\* C16: unpack_labels raises and returns no labels whenever the version field
\* of the decrypted JSON is missing or is not the number 1.
C16_OtherVersionsRejected ==
    (call.fn = "document" /\ call.stage = "opened"
        /\ call.doc.version \notin {"1", "1.0"}) => ~call.out.ok

\* The bytes of an envelope from position lo to hi all have role r
AllOfRole(data, lo, hi, r) == \A i \in lo..hi : data[i].r = r

\* C17: an output of pack_labels is 12 nonce bytes, then as many ciphertext
\* bytes as the JSON payload has bytes, then 16 tag bytes; unpack_labels
\* rejects an input shorter than 28 bytes as too short, whatever the key.
C17_EnvelopeLayout ==
    /\ (call.fn = "labels" /\ call.stage \in {"packed", "read", "opened"}) =>
          LET d == call.packed.data
              payload == utf8_encode(json_dumps([version |-> "1", has_labels |-> TRUE,
                                                 labels |-> call.labs]))
          IN /\ Len(d) = Len(payload) + 28
             /\ AllOfRole(d, 1, 12, "nonce")
             /\ AllOfRole(d, 13, 12 + Len(payload), "ct")
             /\ AllOfRole(d, 13 + Len(payload), Len(d), "tag")
    /\ (call.fn \in {"labels", "document"} /\ call.stage = "opened"
          /\ Len(call.data) < 28) =>
          (~call.out.ok /\ call.out.err = "ValueError: too short")

C17_Witness ==
    /\ call.fn = "labels" /\ call.stage = "opened"
    /\ Len(call.packed.data) > 28
    /\ call.damage = "truncate"
    /\ KeyLength(call.key2) # 32
    /\ call.out.err = "ValueError: too short"

\* C18: encrypt and decrypt, and with them pack_labels and unpack_labels,
\* reject a key that is not 32 bytes long with an error and produce nothing.
C18_KeyLengthChecked ==
    (call.fn \in {"labels", "bytes"}) =>
        /\ (call.stage # "in" /\ KeyLength(call.key) # 32) =>
              /\ call.stage = "failed"
              /\ ~call.packed.ok /\ call.packed.err = "ValueError: key"
              /\ call.data = <<>>
        /\ (call.stage = "opened" /\ KeyLength(call.key2) # 32) =>
              /\ ~call.out.ok
              /\ call.fn = "bytes" =>
                    (call.out.err = "ValueError: key" /\ call.out.plaintext = <<>>)
              /\ call.fn = "labels" =>
                    /\ call.out.err \in {"ValueError: key", "ValueError: too short"}
                    /\ call.out.labels = NoCodecLabels

C18_Witness ==
    /\ call.fn = "bytes" /\ call.stage = "opened"
    /\ KeyLength(call.key) = 32 /\ KeyLength(call.key2) = 16
    /\ call.out.err = "ValueError: key"

\* An entry the import reads with the key it uses: a .mtdt name, a download
\* that answers, and a version-1 JSON envelope whose tag verifies under key
Importable(entry, key) ==
    /\ entry.mtdt
    /\ entry.net = "ok"
    /\ entry.obj.kind = "env"
    /\ entry.obj.key = key
    /\ entry.obj.json
    /\ entry.obj.version = VERSION

\* C19: import_trezor_suite_labels takes labels only from the .mtdt entries
\* that download and open under the wallet's key; every other entry is
\* skipped, gives no label, and stops neither the import nor the reading of
\* the entries after it.
C19_ImportSkipsUnreadable ==
    (call.fn = "import" /\ call.stage = "opened"
        /\ is_authenticated(Wallet) /\ is_hardware_wallet(Wallet)) =>
        LET es == call.entries
            key == call.out.key
            got == call.out.imported
        IN \/ call.out.err = "ProviderError"
           \/ /\ call.out.res = "returned"
              /\ key \in OwnKeys
              /\ \A k \in Items :
                    /\ got[k] # Missing =>
                          \E i \in 1..Len(es) :
                              Importable(es[i], key) /\ es[i].obj.labels[k] = got[k]
                    /\ (\E i \in 1..Len(es) :
                            Importable(es[i], key) /\ es[i].obj.labels[k] # Missing)
                          => got[k] # Missing
                    /\ labels[k] = IF got[k] # Missing THEN got[k]
                                   ELSE call.before[k]

C19_Witness ==
    /\ call.fn = "import" /\ call.stage = "opened"
    /\ Len(call.entries) = 2
    /\ ~Importable(call.entries[1], call.out.key)
    /\ call.entries[1].mtdt /\ call.entries[1].net = "ok"
    /\ call.entries[1].obj.key = ForeignKey
    /\ Importable(call.entries[2], call.out.key)
    /\ call.out.res = "returned"
    /\ call.out.imported = call.entries[2].obj.labels
    /\ labels = [a |-> "x", b |-> "y"]

\* C20: after logout_dropbox the wallet has no token: it is not authenticated,
\* the stored token is cleared, stop_wallet and start_wallet do not bring the
\* authentication back, and push_labels and pull_labels fail as not
\* authenticated, until the next login.
C20_LogoutDestroysToken ==
    /\ [](logged_out # "" =>
            (db = NoStored /\ ~is_authenticated(Wallet)))
    /\ [][\A t \in Threads :
            (AuthCheck(t) /\ logged_out # "" /\ proc[t].op \in {"pull", "push"}) =>
                (proc'[t].res = "raised"
                    /\ proc'[t].err = "Dropbox not authenticated")]_vars

\* C21: what is stored under the wallet's token key is the encoded token,
\* never the token itself, and the token of an authenticated wallet is the
\* one the stored value decodes to: after authenticate, stop_wallet and
\* start_wallet the wallet is authenticated with the token that was stored.
C21_StoredTokenIsEncoded ==
    /\ db # NoStored =>
          /\ db \notin {<<token>> : token \in LoginTokens}
          /\ \E token \in LoginTokens : db = encode(Wallet, token)
    /\ is_authenticated(Wallet) =>
          /\ db # NoStored
          /\ decode(Wallet, db).ok
          /\ decode(Wallet, db).msg = dropbox_tokens[WalletId(Wallet)]

C21_Witness ==
    /\ is_authenticated(Wallet)
    /\ dropbox_tokens[WalletId(Wallet)] = "tok2"
    /\ proc["loop"].op = "pull"
    /\ db = encode(Wallet, "tok2")

\* C22: a step that takes the wallet out of the plugin's wallet table leaves
\* no token for its wallet id, and in every state a token is held only for a
\* wallet that is in the wallet table (started and not stopped since).
C22_StoppedWalletHasNoToken ==
    /\ [](dropbox_tokens[WalletId(Wallet)] # NoToken => Wallet \in wallets)
    /\ [][(Wallet \in wallets /\ Wallet \notin wallets') =>
            dropbox_tokens'[WalletId(Wallet)] = NoToken]_vars

C22_Witness ==
    /\ Wallet \notin wallets
    /\ db # NoStored
    /\ dropbox_tokens[WalletId(Wallet)] = NoToken
    /\ logged_out = ""
    /\ db = encode(Wallet, "tok2")

\* C23: derive_master_key fails with the invalid-length error whenever the
\* device's answer is not 32 bytes long, and after a failed derivation the
\* master-key cache is what it was when derive_master_key was called.
C23_FailedDerivationNotCached ==
    (call.fn = "get_label_keys" /\ call.stage = "opened") =>
        /\ call.outcome = "badlen" =>
              (~call.out.ok /\ call.out.err = "ValueError: master key length")
        /\ call.outcome = "error" => ~call.out.ok
        /\ ~call.out.ok =>
              /\ call.cache = call.before
              /\ \A id \in CacheIds :
                    call.cache[id] # NoEntry => call.cache[id].key = MasterKey(DeviceId)

C23_Witness ==
    /\ call.fn = "get_label_keys" /\ call.stage = "opened"
    /\ call.use_cache
    /\ call.outcome = "badlen"
    /\ ~call.out.ok
    /\ call.cache = NewKeyCache

\* C24: derive_account_key gives the same pair on every call with the same
\* inputs, another pair for another account index, and an encryption key
\* that differs from the filename key.
C24_AccountKeysSeparated ==
    (call.fn = "derive_account_key" /\ call.stage = "opened") =>
        /\ call.out = call.again
        /\ call.i = call.j => call.out = call.other
        /\ call.i # call.j =>
              /\ call.out.encryption_key # call.other.encryption_key
              /\ call.out.filename_key # call.other.filename_key
        /\ call.out.encryption_key # call.out.filename_key
        /\ call.out.encryption_key # call.other.filename_key

C24_Witness ==
    /\ call.fn = "derive_account_key" /\ call.stage = "opened"
    /\ call.i = 0 /\ call.j = 1
    /\ call.out # call.other

\* The step in which the files_download or files_upload call of an operation,
\* made for the first time, fails with a network error
FirstCallFails(t) ==
    /\ proc[t].pc \in {"p_dl", "u_up"}
    /\ proc[t].answer # "error" /\ ~proc[t].upfail
    /\ proc'[t].answer = "error" \/ proc'[t].upfail

\* C25: an upload or download that fails with a transient network error is
\* retried: after the first failed call the operation has not ended, it is at
\* the same call again.
C25_TransientFailureIsRetried ==
    [][\A t \in Threads : FirstCallFails(t) => proc'[t].pc = proc[t].pc]_vars

\* The index of a character in the URL-safe alphabet, 0 for a character that
\* is not in it
UrlSafeIndex(c) ==
    IF \E k \in 1..64 : UrlSafeAlphabet[k] = c
    THEN CHOOSE k \in 1..64 : UrlSafeAlphabet[k] = c
    ELSE 0

\* The bytes an unpadded base64url text stands for
UrlSafeDecode(chars) ==
    LET n == Len(chars)
        tail == IF n % 4 >= 2 THEN (n % 4) - 1 ELSE 0
        d(k, i) == IF 4 * (k - 1) + i <= n
                   THEN UrlSafeIndex(chars[4 * (k - 1) + i]) - 1 ELSE 0
        v(k) == d(k, 1) * 262144 + d(k, 2) * 4096 + d(k, 3) * 64 + d(k, 4)
        bytes(k) == <<v(k) \div 65536, (v(k) \div 256) % 256, v(k) % 256>>
    IN [j \in 1..(3 * (n \div 4) + tail) |->
          bytes(((j - 1) \div 3) + 1)[((j - 1) % 3) + 1]]

\* C28: generate_pkce_params returns a verifier of 43 characters, which is
\* within 43..128, and a challenge that is the unpadded base64url text of the
\* SHA-256 digest of the verifier, with none of '+', '/' and '=' in it.
C28_PkceParams ==
    (call.fn = "generate_pkce_params" /\ call.stage = "opened") =>
        /\ Len(call.out.code_verifier) = 43
        /\ Len(call.out.code_verifier) >= 43 /\ Len(call.out.code_verifier) <= 128
        /\ \A i \in 1..Len(call.out.code_verifier) :
              UrlSafeIndex(call.out.code_verifier[i]) # 0
        /\ UrlSafeDecode(call.out.code_verifier) = call.random
        /\ \A i \in 1..Len(call.out.code_challenge) :
              /\ call.out.code_challenge[i] \notin {"+", "/", "="}
              /\ UrlSafeIndex(call.out.code_challenge[i]) # 0
        /\ Len(call.out.code_challenge) = 43
        /\ UrlSafeDecode(call.out.code_challenge) = call.digest

C28_Witness ==
    /\ call.fn = "generate_pkce_params" /\ call.stage = "opened"
    /\ call.digest = [i \in 1..DIGEST_SIZE |-> 255]
    /\ call.out.code_challenge[1] = "_"
    /\ call.out.code_challenge[43] = "8"

\* C29: when sync_label(wallet, item, "") completes successfully after the
\* label of item was removed locally, item has no label in the remote label
\* set and none in the wallet's labels.  (Stated for a sync_label that is the
\* only operation run so far.)
C29_DeletionIsNotUndone ==
    [][\A t \in Threads :
         (SyncCompletes(t) /\ proc[t].label = "" /\ ops = 1) =>
            /\ store'[proc[t].upath].kind = "env"
            /\ store'[proc[t].upath].labels[proc[t].item] = Missing
            /\ labels'[proc[t].item] = Missing
      ]_vars

\* C30: when a sync_label on the network loop and a push_labels on the sync
\* thread overlap, the remote label set holds both their changes once both
\* have completed: the upload that completes sync_label after the push has
\* completed leaves every item other than its own as the remote object held
\* it.  (Stated for a sync_label without a device error that downloaded from
\* the path it uploads to.)
C30_OverlappingSyncsKeepBothChanges ==
    [][\A t \in Threads : \A u \in Threads \ {t} :
         (/\ SyncCompletes(t)
          /\ ~proc[t].deverr /\ proc[t].dpath = proc[t].upath
          /\ proc[u].op = "push" /\ proc[u].pc = "done" /\ proc[u].err = ""
          /\ ReadableOwn(store[proc[t].upath])) =>
            \A k \in Items \ {proc[t].item} :
               store'[proc[t].upath].labels[k] = StoredLabels(store[proc[t].upath])[k]
      ]_vars

\* C31: within one operation the encryption key and the filename come from
\* the same key source: an operation about to upload holds the key that
\* belongs to the path it uploads to.
C31_KeyAndFilenameFromOneSource ==
    \A t \in Threads :
        proc[t].pc = "u_up" => proc[t].key = KeyOfPath(proc[t].upath)

\* C32: complete_authentication(wallet, code) stores a token for wallet only
\* when the flow it finishes was started for that wallet, and a step for one
\* wallet changes the token of no other wallet.
C32_FlowBelongsToWallet ==
    [][\A v \in AuthWallets :
         call'.dropbox_tokens[v] # call.dropbox_tokens[v] =>
            /\ call'.last.wallet = v
            /\ call'.last.op = "complete" =>
                  call.started_for[call.auth_flow] = v
      ]_vars

\* The download of the operation failed, or its object did not unpack
DownloadFailed(pr) == pr.answer = "error" \/ pr.dlbad

\* C33: in sync_label the upload comes only after the download of the same
\* call has returned a label set or not-found; a sync_label whose download or
\* decryption failed has ended, and no step of it changes the remote object.
C33_UploadOnlyAfterDownload ==
    /\ [](\A t \in Threads :
            (proc[t].op = "sync" /\ DownloadFailed(proc[t])) => proc[t].pc = "done")
    /\ [][\A t \in Threads :
            (proc[t].op = "sync" /\ proc'[t] # proc[t]) =>
               /\ proc'[t].pc \in {"u_key", "u_fn", "u_up"} =>
                     (proc'[t].answer \in {"content", "not_found"} /\ ~proc'[t].dlbad)
               /\ store' # store =>
                     /\ proc[t].pc = "u_up"
                     /\ proc[t].answer \in {"content", "not_found"}
                     /\ ~proc[t].dlbad
         ]_vars

C33_Witness ==
    /\ proc["loop"].op = "sync" /\ proc["loop"].pc = "done"
    /\ proc["loop"].dlbad
    /\ proc["thread"].op = "none"
    /\ \E q \in Paths : store[q].kind = "env" /\ store[q].labels = [a |-> "y", b |-> "y"]

\* C34: get_cached_key(id) returns the key of the latest cache_key call for
\* the id when no clear_cache came after it and the time is strictly before
\* that call's time plus its timeout; otherwise it returns None, and the
\* entry of the id is gone after the lookup.
C34_CacheServesLatestLiveKey ==
    (call.fn = "cache" /\ call.got # NoLookup) =>
        LET l == call.got.latest
        IN IF l # NoLatest /\ call.got.t < l.at + l.timeout
           THEN call.got.key = l.key
           ELSE call.got.key = NoKey /\ call.got.after = NoEntry

C34_Witness ==
    /\ call.fn = "cache" /\ call.got # NoLookup
    /\ call.got.latest # NoLatest
    /\ call.got.t = call.got.latest.at + call.got.latest.timeout
    /\ call.got.latest.timeout > 0
    /\ call.got.key = NoKey
    /\ call.cache[call.got.id] = NoEntry

\* C35: no operation contacts the object store for a wallet that has no
\* token: without a token the authentication test ends pull_labels and
\* push_labels with the not-authenticated error and sync_label with a plain
\* return, a download or upload step makes no call and changes nothing, and
\* import_trezor_suite_labels raises the error after no call at all.
\* (Steps of an operation that has started; starting one contacts nothing.)
C35_NoTokenNoContact ==
    /\ []((call.fn = "import" /\ call.stage = "opened" /\ ~call.token) =>
             /\ call.out.res = "raised"
             /\ call.out.err = "Dropbox not authenticated"
             /\ call.out.calls = 0
             /\ call.out.labels = call.before)
    /\ [][\A t \in Threads :
            (Running(t) /\ proc'[t] # proc[t] /\ ~is_authenticated(Wallet)) =>
               /\ store' = store
               /\ proc'[t].answer = proc[t].answer
               /\ proc'[t].upfail = proc[t].upfail
               /\ proc[t].pc = "auth" =>
                     /\ proc'[t].pc = "done"
                     /\ labels' = labels
                     /\ proc[t].op \in {"pull", "push"} =>
                           /\ proc'[t].res = "raised"
                           /\ proc'[t].err = "Dropbox not authenticated"
                     /\ proc[t].op = "sync" => proc'[t].res = "returned"
               /\ proc[t].pc \in {"p_dl", "u_up"} =>
                     /\ proc'[t].pc = "done"
                     /\ proc'[t].err = "No Dropbox token available"
         ]_vars

C35_Witness ==
    /\ call.fn = "import" /\ call.stage = "opened" /\ ~call.token
    /\ keystore = "trezor"
    /\ logged_out = "cleared"
    /\ proc["thread"].op = "pull" /\ proc["thread"].pc = "done"
    /\ proc["thread"].err = "No Dropbox token available"

\* C36: every token request of exchange_code_for_token carries the verifier
\* of the get_authorization_url call that generated the client's state, whose
\* challenge is the challenge of that verifier; a client on which
\* get_authorization_url was never called sends no token request.
C36_RequestCarriesFlowVerifier ==
    [][oauth'.posts > oauth.posts =>
          /\ oauth.flows > 0
          /\ oauth.state = OAuthState(oauth.flows)
          /\ oauth.code_verifier = CodeVerifier(oauth.flows)
          /\ oauth.code_challenge = CodeChallenge(oauth.code_verifier)
      ]_vars

\* C37: the step in which pull_labels writes the wallet's labels leaves a
\* non-empty local label alone when force is off and gives an empty one the
\* remote value; with force on every key of the remote set takes the remote
\* value; a key absent from the remote set keeps its local state.
C37_PullFrame ==
    [][\A t \in Threads : PullMerges(t) =>
         \A k \in Items :
            LET remote == proc'[t].ret[k]
            IN /\ remote = Missing => labels'[k] = labels[k]
               /\ (remote # Missing /\ proc[t].force) => labels'[k] = remote
               /\ (remote # Missing /\ ~proc[t].force) =>
                     labels'[k] = (IF get_label(labels, k) = "" THEN remote
                                   ELSE labels[k])
      ]_vars

C37_Witness ==
    /\ proc["thread"].op = "pull" /\ proc["thread"].pc = "done"
    /\ proc["thread"].err = ""
    /\ proc["thread"].ret = [a |-> "y", b |-> "y"]
    /\ labels = [a |-> "x", b |-> "y"]
    /\ proc["loop"].op = "none"

\* C38: in every state of a constructed MultiAccountWallet current_account is
\* the index of an existing account, and set_current_account with an index
\* that does not exist raises and leaves current_account as it was.
C38_CurrentAccountExists ==
    /\ [](( call.fn = "wallet" /\ call.phase = "live") =>
             call.current_account \in call.accounts)
    /\ [][\A account_index \in 0..(MaxIndex + 1) :
            (SetCurrentAccount(account_index) /\ account_index \notin call.accounts) =>
               /\ call'.last.res = "ValueError: does not exist"
               /\ call'.current_account = call.current_account
         ]_vars

\* The indices of a set in increasing order
RECURSIVE Ascending(_)
Ascending(S) ==
    IF S = {} THEN <<>>
    ELSE LET m == CHOOSE x \in S : \A y \in S : x <= y
         IN <<m>> \o Ascending(S \ {m})

\* The scan from index 0 reaches index i: no gap_limit consecutive indices
\* without history lie below it
ScanReaches(hist, gap_limit, i) ==
    /\ gap_limit > 0
    /\ \A j \in 0..(i - gap_limit) :
          \E k \in j..(j + gap_limit - 1) : k \in hist

\* C39: discover_accounts returns, in increasing order, every account index
\* with transaction history that the scan reaches before gap_limit consecutive
\* indices without history, and afterwards every returned index is an account.
C39_DiscoverFindsUsedAccounts ==
    (call.fn = "wallet" /\ call.last.op = "discover_accounts") =>
        /\ call.last.ret =
             Ascending({i \in call.last.hist :
                          ScanReaches(call.last.hist, call.last.gap, i)})
        /\ \A k \in 1..Len(call.last.ret) : call.last.ret[k] \in call.accounts

\* C40: add_account never creates an index twice, also when two threads call
\* it at once; without an index it creates max(existing) + 1; with an existing
\* index or without a master keystore it raises, and the accounts and the
\* stored account data stay as they were.
C40_AddAccountIsAtomic ==
    /\ [](call.fn = "wallet" =>
            \A i, j \in 1..Len(call.created) :
                call.created[i] = call.created[j] => i = j)
    /\ [][\A t \in AcctThreads :
            AddAccountInsert(t) =>
               /\ call.th[t].idx \notin call.accounts
               /\ call.th[t].arg = NoIndex =>
                    call.th[t].idx = MaxKey(call.accounts) + 1
               /\ call.th[t].arg # NoIndex => call.th[t].idx = call.th[t].arg
         ]_vars
    /\ [][\A t \in AcctThreads :
            (AddAccountCheck(t) /\ (call.th[t].arg \in call.accounts \/ ~call.keystore)) =>
               /\ call'.th[t].pc = "done"
               /\ call'.th[t].res # "ok"
               /\ call'.accounts = call.accounts
               /\ call'.stored = call.stored
               /\ call'.stored_current = call.stored_current
         ]_vars
    /\ [][(Construct /\ ~call.keystore) =>
               /\ call'.phase = "failed"
               /\ call'.accounts = call.accounts
               /\ call'.stored = call.stored
               /\ call'.stored_current = call.stored_current
         ]_vars

\* Two threads are in add_account without an index: one has put its account
\* in and holds the lock, the other waits for the lock
C40_Witness ==
    /\ call.fn = "wallet"
    /\ call.th["t1"].pc = "save" /\ call.th["t1"].arg = NoIndex
    /\ call.th["t2"].pc = "lock" /\ call.th["t2"].arg = NoIndex
    /\ call.lock = "t1"

====
